---- MODULE Spec2Model ----
(***************************************************************************)
(* The response-to-artifact pipeline of ThairaCoder: the structure parser  *)
(* (parseFileStructure), the block extractor (parseCodeBlocks), the        *)
(* version computation of PreviewPane and the virtual module loader        *)
(* (registerModules / requireModule / resolvePath).                        *)
(*                                                                         *)
(* Text is a sequence of one-character strings.  The box-drawing glyphs    *)
(* are written with ASCII stand-ins:                                       *)
(*    "V" = U+2502 (vertical)     "T" = U+251C (tee)                       *)
(*    "L" = U+2514 (corner)       "H" = U+2500 (horizontal)                *)
(* "O" stands for an opening <think...> tag and "C" for a closing          *)
(* </think> tag; "\n" is the line break and " " the only whitespace        *)
(* besides it.  Every other character is an ordinary name character.       *)
(***************************************************************************)
EXTENDS Integers, Sequences, FiniteSets, TLC

VARIABLES
    copy,        \* which parseFileStructure of PreviewPane.tsx runs: 1 (line 26) or 2 (line 601)
    lines,       \* parseFileStructure: the lines of the (filtered) text
    lineNo,      \* parseFileStructure: number of lines the loop has consumed
    treeNodes,   \* parseFileStructure: every TreeNode created, with where it was attached
    stack,       \* parseFileStructure: the parent stack (may hold holes)
    pfsPc,       \* parseFileStructure: "idle", "loop", "returned" or "threw"
    content,     \* the content of the assistant message that is being streamed
    flatBlocks,  \* parseCodeBlocks(content), the flat blocks, as of the last refresh
    pcbThrew,    \* whether that call of parseCodeBlocks threw
    modules,        \* LivePreview: the modules of the current preview pass
    moduleRegistry, \* virtual-view.ts: own entries of the registry object, filename -> compiled unit
    callStack,      \* the requireModule calls in progress, innermost last
    entry,          \* LivePreview: the filename handed to requireModule in this pass
    required,       \* what that requireModule call returned or threw
    earlier,        \* history: the filenames that had an entry in the registry of an earlier pass
    executed,       \* history: the filenames whose compiled unit was run in this pass, in order
    error,          \* LivePreview: the error state (NoError for null)
    effectPc,       \* LivePreview effect: "idle" or "running"
    roots,          \* the React roots created on the host element, oldest first
    hostContent,    \* the roots whose rendered output is in the host element
    uncaught,       \* whether an error has left LivePreview uncaught
    props,          \* LivePreview: the [modules, entry] props the effect last ran with
    messages,        \* PreviewPane: the messages prop
    memoDeps,        \* PreviewPane: the [messages, activeVersionId] the fileStructure memo last ran with
    memoPc,          \* fileStructure memo: "idle" or "loop"
    memoIndex,       \* fileStructure memo: the assistant messages the for loop has consumed
    parsedStructure, \* fileStructure memo: the local parsedStructure
    newVersions,     \* fileStructure memo: the local newVersions
    accumulatedCodeBlocks, \* fileStructure memo: the local accumulatedCodeBlocks
    versions,        \* PreviewPane: the versions state
    activeVersionId, \* PreviewPane: the activeVersionId state (NoVersion for null)
    chat,            \* ChatInterface: the messages state, records [id, role, content]
    input,           \* ChatInterface: the input state
    isLoading,       \* useOllama: the isLoading state
    provider,        \* useOllama: the provider state
    clock,           \* the value of Date.now()
    requests,        \* the calls of sendMessage so far, oldest first
    refused,         \* history: the request in flight when handleSubmit last returned at
                     \* line 231 with a typed input, 0 if it never did
    mergeFlat,       \* the flat blocks of the message being folded in
    mergeAccumulated, \* the accumulated tree given to the last merge
    mergeIncoming,   \* the incoming tree given to the last merge
    mergeResult,     \* the tree the last merge returned
    mergeUsed,       \* the number of blocks folded in or waiting so far
    mergeHistory,    \* history: the incoming trees folded in so far, oldest first
    streamBody,      \* sendOllamaMessage: the text of the response body the backend sent
    streamPos,       \* sendOllamaMessage: the characters of the body read so far
    fullResponse,    \* sendOllamaMessage: the local fullResponse
    streamUpdates,   \* the arguments of the onStreamUpdate calls so far, in order
    streamPc,        \* sendOllamaMessage: "idle", "reading" or "returned"
    contentBlocks,   \* ContentBlocksView: the contentBlocks prop
    viewOpenTabs,    \* ContentBlocksView: the openTabs state
    viewActiveTab,   \* ContentBlocksView: the activeTab state (NoTab for null)
    viewEffectDeps,  \* ContentBlocksView: the dependencies the tab effect last ran with
    viewSteps,       \* history: the clicks and changes of content of ContentBlocksView so far
    openTabs,        \* PreviewPane: the openTabs state, the filenames of the open tabs
    activeTab,       \* PreviewPane: the activeTab state (NoTab for null)
    effectDeps,      \* the dependencies the version effect last ran with
    userPicked,      \* history: handleVersionChange has been called
    interactions,    \* history: the number of clicks and saves so far
    closed,          \* history: the tab closeTab last closed while it was the active one
    selectedFiles,   \* PreviewPane: the selectedFiles state, a set of filenames
    selectedFilesForContext, \* ChatInterface: the selectedFilesForContext state
    codeBlocks,      \* PreviewPane: the codeBlocks state, the displayed tree of blocks
    fileStructure    \* PreviewPane: the value of the fileStructure memo

treeVars == <<copy, lines, lineNo, treeNodes, stack, pfsPc>>

blockVars == <<content, flatBlocks, pcbThrew>>

loaderVars == <<modules, moduleRegistry, callStack, entry, required, earlier, executed>>

memoVars == <<memoPc, memoIndex, parsedStructure, newVersions, accumulatedCodeBlocks>>

previewVars == <<error, effectPc, roots, hostContent, uncaught, props>>

versionVars == <<messages, memoDeps, memoVars, versions, activeVersionId, codeBlocks,
                 fileStructure>>

selectionVars == <<selectedFiles, selectedFilesForContext>>

paneVars == <<openTabs, activeTab, effectDeps, userPicked, interactions, closed,
              selectionVars>>

mergeVars == <<mergeFlat, mergeAccumulated, mergeIncoming, mergeResult, mergeUsed,
               mergeHistory>>

chatVars == <<chat, input, isLoading, provider, clock, requests, refused>>

streamVars == <<streamBody, streamPos, fullResponse, streamUpdates, streamPc>>

viewVars == <<contentBlocks, viewOpenTabs, viewActiveTab, viewEffectDeps, viewSteps>>

vars == <<treeVars, blockVars, loaderVars, previewVars, versionVars, paneVars, mergeVars,
          chatVars, streamVars, viewVars>>

otherThanTree ==
    <<blockVars, loaderVars, previewVars, versionVars, paneVars, mergeVars, chatVars,
      streamVars, viewVars>>
otherThanBlocks ==
    <<treeVars, loaderVars, previewVars, versionVars, paneVars, mergeVars, chatVars,
      streamVars, viewVars>>
otherThanLoader ==
    <<treeVars, blockVars, previewVars, versionVars, paneVars, mergeVars, chatVars,
      streamVars, viewVars>>
otherThanPreview == <<treeVars, blockVars, versionVars, paneVars, mergeVars, chatVars,
      streamVars, viewVars>>
otherThanVersions ==
    <<treeVars, blockVars, loaderVars, previewVars, paneVars, mergeVars, chatVars,
      streamVars, viewVars>>
otherThanPane == <<treeVars, blockVars, loaderVars, previewVars, mergeVars, chatVars,
      streamVars, viewVars>>
otherThanMerge ==
    <<treeVars, blockVars, loaderVars, previewVars, versionVars, paneVars, chatVars,
      streamVars, viewVars>>
otherThanStream ==
    <<treeVars, blockVars, loaderVars, previewVars, versionVars, paneVars, mergeVars,
      chatVars, viewVars>>
otherThanView ==
    <<treeVars, blockVars, loaderVars, previewVars, versionVars, paneVars, mergeVars,
      chatVars, streamVars>>
otherThanChat ==
    <<treeVars, blockVars, loaderVars, previewVars, versionVars, paneVars, mergeVars,
      streamVars, viewVars>>

(***************************************************************************)
(* Bounds of the model.                                                    *)
(***************************************************************************)
MaxLines == 4
MaxContent == 8
MaxModules == 2
MaxMessages == 3
MaxRoots == 2
MaxPaneMessages == 2
MaxInteractions == 3
MaxMergeBlocks == 3
MaxRequests == 2
MaxRecords == 2
MaxViewSteps == 4

(***************************************************************************)
(* String helpers (String.prototype.trim, split, join).                    *)
(***************************************************************************)
IsSpace(c) == c \in {" ", "\n"}

Min(a, b) == IF a < b THEN a ELSE b

\* the number of leading whitespace characters of s
LeadingSpaces(s) ==
    CHOOSE n \in 0..Len(s) :
        /\ \A k \in 1..n : IsSpace(s[k])
        /\ (n = Len(s) \/ ~IsSpace(s[n + 1]))

\* the number of trailing whitespace characters of s
TrailingSpaces(s) ==
    CHOOSE n \in 0..Len(s) :
        /\ \A k \in (Len(s) - n + 1)..Len(s) : IsSpace(s[k])
        /\ (n = Len(s) \/ ~IsSpace(s[Len(s) - n]))

\* String.prototype.trim
Trim(s) ==
    IF LeadingSpaces(s) = Len(s) THEN <<>>
    ELSE SubSeq(s, LeadingSpaces(s) + 1, Len(s) - TrailingSpaces(s))

\* Array.prototype.join(sep)
RECURSIVE JoinWith(_, _)
JoinWith(ls, sep) ==
    IF ls = <<>> THEN <<>>
    ELSE IF Len(ls) = 1 THEN ls[1]
    ELSE ls[1] \o <<sep>> \o JoinWith(Tail(ls), sep)

\* String.prototype.split(sep): always at least one (possibly empty) piece
RECURSIVE SplitOn(_, _)
SplitOn(text, sep) ==
    IF \A k \in 1..Len(text) : text[k] # sep THEN <<text>>
    ELSE LET p == CHOOSE k \in 1..Len(text) :
                      text[k] = sep /\ \A j \in 1..(k - 1) : text[j] # sep
         IN  <<SubSeq(text, 1, p - 1)>> \o SplitOn(SubSeq(text, p + 1, Len(text)), sep)

\* the lines of a message joined by line breaks
Join(ls) == JoinWith(ls, "\n")

\* text.split(/\r?\n/)
Split(text) == SplitOn(text, "\n")

\* the value of an absent optional capture group or field
Undefined == <<"undefined">>

(***************************************************************************)
(* parseFileStructure (PreviewPane.tsx).  Two copies of the function are   *)
(* in the file; they differ in the thinking-tag filter (copy 1 only) and   *)
(* in the optional chaining of the parent scan (copy 1 only).              *)
(***************************************************************************)

\* text.replace(/<(?:thinking|think)[\s\S]*?<\/(?:thinking|think)>/gi, "")
RECURSIVE FilterThinking(_)
FilterThinking(text) ==
    IF \A k \in 1..Len(text) : text[k] # "O" THEN text
    ELSE LET p == CHOOSE k \in 1..Len(text) :
                      text[k] = "O" /\ \A j \in 1..(k - 1) : text[j] # "O"
         IN  IF \A k \in (p + 1)..Len(text) : text[k] # "C" THEN text
             ELSE LET q == CHOOSE k \in (p + 1)..Len(text) :
                               text[k] = "C" /\ \A j \in (p + 1)..(k - 1) : text[j] # "C"
                  IN  SubSeq(text, 1, p - 1) \o FilterThinking(SubSeq(text, q + 1, Len(text)))

\* the characters of the class [│├└\s]
IsPrefixChar(c) == c \in {"V", "T", "L", " "}

\* the longest prefix of the line made of [│├└\s] characters
PrefixRun(line) ==
    CHOOSE n \in 0..Len(line) :
        /\ \A k \in 1..n : IsPrefixChar(line[k])
        /\ (n = Len(line) \/ ~IsPrefixChar(line[n + 1]))

\* t matches (\s*#.*)?$ : nothing, or optional whitespace and then a comment
IsCommentTail(t) ==
    \/ t = <<>>
    \/ \E k \in 1..Len(t) : t[k] = "#" /\ \A j \in 1..(k - 1) : IsSpace(t[j])

\* the rawComment group trimmed, undefined when the group did not take part
CommentOf(t) == IF t = <<>> THEN Undefined ELSE Trim(t)

\* line.match(/^([│├└\s]*)(├──|└──)\s*(.*?)(\s*#.*)?$/) and the fields read from it.
\* The greedy prefix must give back its last character to the branch glyph, so the
\* branch is the tee or corner that ends the prefix run, followed by two horizontals.
TreeMatch(line) ==
    LET m == PrefixRun(line)
        ok == /\ m >= 1
              /\ line[m] \in {"T", "L"}
              /\ Len(line) >= m + 2
              /\ line[m + 1] = "H"
              /\ line[m + 2] = "H"
    IN  IF ~ok THEN [matched |-> FALSE]
        ELSE LET prefix == SubSeq(line, 1, m - 1)
                 after  == SubSeq(line, m + 3, Len(line))
                 rest   == SubSeq(after, LeadingSpaces(after) + 1, Len(after))
                 \* (.*?) is lazy: the shortest name that leaves a comment tail
                 n      == CHOOSE k \in 0..Len(rest) :
                               /\ IsCommentTail(SubSeq(rest, k + 1, Len(rest)))
                               /\ \A j \in 0..(k - 1) :
                                      ~IsCommentTail(SubSeq(rest, j + 1, Len(rest)))
                 name   == Trim(SubSeq(rest, 1, n))
             IN  [matched  |-> TRUE,
                  name     |-> name,
                  comment  |-> CommentOf(SubSeq(rest, n + 1, Len(rest))),
                  \* prefix.replace(/[^│]/g, "").length
                  level    |-> Cardinality({k \in 1..Len(prefix) : prefix[k] = "V"}),
                  \* name.endsWith("/")
                  isFolder |-> name # <<>> /\ name[Len(name)] = "/"]

\* t matches (\/?)(\s*#.*)?$
IsSlashTail(t) ==
    \/ IsCommentTail(t)
    \/ (t # <<>> /\ t[1] = "/" /\ IsCommentTail(Tail(t)))

\* line.match(/^(\s*)([^\/\s][^#]*?)(\/?)(\s*#.*)?$/) and the fields read from it
DotMatch(line) ==
    LET ind == LeadingSpaces(line)
        s   == SubSeq(line, ind + 1, Len(line))
        \* [^\/\s][^#]*? : a first character, then lazily anything but '#'
        fits(k) == /\ \A j \in 2..k : s[j] # "#"
                   /\ IsSlashTail(SubSeq(s, k + 1, Len(s)))
        ok  == /\ s # <<>>
               /\ s[1] # "/"
               /\ \E k \in 1..Len(s) : fits(k)
    IN  IF ~ok THEN [matched |-> FALSE]
        ELSE LET n     == CHOOSE k \in 1..Len(s) :
                              fits(k) /\ \A j \in 1..(k - 1) : ~fits(j)
                 tail  == SubSeq(s, n + 1, Len(s))
                 \* (\/?) is greedy: it takes the slash whenever one is there
                 slash == tail # <<>> /\ tail[1] = "/"
             IN  [matched  |-> TRUE,
                  name     |-> Trim(SubSeq(s, 1, n)),
                  comment  |-> CommentOf(IF slash THEN Tail(tail) ELSE tail),
                  \* Math.floor(indent.length / 2)
                  level    |-> ind \div 2,
                  isFolder |-> slash]

\* the recognizers in the order of the if / else if: the tree form takes precedence
Recognize(line) ==
    IF TreeMatch(line).matched THEN TreeMatch(line) ELSE DotMatch(line)

\* a slot of the stack array that was never assigned (a hole reads as undefined)
Hole == [node |-> 0, level |-> -1]

\* FindParent with the depth test loosened to "any shallower folder"
RECURSIVE FindParentShallower(_, _, _, _, _)
FindParentShallower(cp, nodes, stk, i, level) ==
    IF i = 0 THEN 0
    ELSE IF stk[i] = Hole
         THEN IF cp = 2 THEN -1 ELSE FindParentShallower(cp, nodes, stk, i - 1, level)
         ELSE IF stk[i].level < level /\ nodes[stk[i].node].type = "folder"
              THEN stk[i].node
              ELSE FindParentShallower(cp, nodes, stk, i - 1, level)

\* the "Find closest parent" loop, from index i down: the index of the parent
\* node, 0 when none is found, -1 when reading a hole throws a TypeError.
\* Copy 1 reads stack[i]?.level, copy 2 reads stack[i].level.
RECURSIVE FindParent(_, _, _, _, _)
FindParent(cp, nodes, stk, i, level) ==
    IF i = 0 THEN 0
    ELSE IF stk[i] = Hole
         THEN IF cp = 2 THEN -1 ELSE FindParent(cp, nodes, stk, i - 1, level)
         ELSE IF stk[i].level = level - 1 /\ nodes[stk[i].node].type = "folder"
              THEN stk[i].node
              ELSE FindParent(cp, nodes, stk, i - 1, level)

\* PushFolder without the splice: deeper entries of an earlier branch stay on the stack
PushFolderNoSplice(stk, k, level) ==
    IF level < Len(stk)
    THEN [stk EXCEPT ![level + 1] = [node |-> k, level |-> level]]
    ELSE stk \o [j \in 1..(level - Len(stk)) |-> Hole] \o <<[node |-> k, level |-> level]>>

\* stack.splice(level); stack[level] = { node, level }
PushFolder(stk, k, level) ==
    LET cut == SubSeq(stk, 1, Min(level, Len(stk)))
    IN  cut \o [j \in 1..(level - Len(cut)) |-> Hole] \o <<[node |-> k, level |-> level]>>

\* one iteration of "for (const line of lines)" on a state [nodes, stack, threw]
ParseStep(cp, st, idx, line) ==
    LET m == Recognize(line)
    IN  IF Trim(line) = <<>> THEN st                       \* if (!line.trim()) continue
        ELSE IF ~m.matched THEN st                         \* else { continue }
        ELSE IF m.name = <<>> THEN st                      \* if (!name) continue
        ELSE LET k      == Len(st.nodes) + 1
                 found  == IF m.level = 0 THEN 0
                           ELSE FindParent(cp, st.nodes, st.stack, Len(st.stack), m.level)
                 \* 0: pushed on root; k > 0: pushed on node k's children; -1: dropped
                 parent == IF m.level = 0 THEN 0
                           ELSE IF found > 0 THEN found ELSE -1
                 node   == [line     |-> idx,
                            name     |-> m.name,
                            type     |-> IF m.isFolder THEN "folder" ELSE "file",
                            expanded |-> m.level < 2,
                            comment  |-> m.comment,
                            level    |-> m.level,
                            parent   |-> parent]
             IN  IF found = -1
                 THEN [st EXCEPT !.threw = TRUE]
                 ELSE [nodes |-> Append(st.nodes, node),
                       stack |-> IF m.isFolder
                                 THEN PushFolder(st.stack, k, m.level)
                                 ELSE st.stack,
                       threw |-> FALSE]

(***************************************************************************)
(* The texts the parser is run on: up to MaxLines lines, each one of the   *)
(* line shapes below, joined by line breaks.                               *)
(***************************************************************************)
LineShapes ==
    { <<"s", "/">>,                                   \* src/
      <<"T", "H", "H", " ", "a">>,                    \* ├── a
      <<"L", "H", "H", " ", "h", "/">>,               \* └── h/
      <<" ", " ", " ", " ", "L", "H", "H", " ", "u">>,\*     └── u
      <<"V", " ", "L", "H", "H", " ", "b", " ", "#", "x">>,  \* │ └── b #x
      <<"V", " ", "T", "H", "H", " ", "d", "/">>,     \* │ ├── d/
      <<" ", " ", " ", " ", "e", "/">>,               \*     e/
      <<"T", "H", "H", "O">>,                         \* ├──<think>
      <<"/", "C">> }                                  \* /</think>

Texts == UNION { [1..n -> LineShapes] : n \in 1..MaxLines }

\* parseFileStructure(text) is entered: filter (copy 1), split, empty root and stack
ParseFileStructureCall ==
    /\ pfsPc = "idle"
    /\ \E cp \in {1, 2}, t \in Texts :
          /\ copy' = cp
          /\ lines' = Split(IF cp = 1 THEN FilterThinking(Join(t)) ELSE Join(t))
    /\ lineNo' = 0
    /\ treeNodes' = <<>>
    /\ stack' = <<>>
    /\ pfsPc' = "loop"
    /\ UNCHANGED otherThanTree

\* one iteration of the for loop; a TypeError leaves the function
ParseLine ==
    /\ pfsPc = "loop"
    /\ lineNo < Len(lines)
    /\ LET st == ParseStep(copy, [nodes |-> treeNodes, stack |-> stack, threw |-> FALSE],
                           lineNo + 1, lines[lineNo + 1])
       IN  /\ treeNodes' = st.nodes
           /\ stack' = st.stack
           /\ pfsPc' = IF st.threw THEN "threw" ELSE "loop"
    /\ lineNo' = lineNo + 1
    /\ UNCHANGED <<copy, lines>>
    /\ UNCHANGED otherThanTree

\* return root
ParseReturn ==
    /\ pfsPc = "loop"
    /\ lineNo = Len(lines)
    /\ pfsPc' = "returned"
    /\ UNCHANGED <<copy, lines, lineNo, treeNodes, stack>>
    /\ UNCHANGED otherThanTree

TreeInit ==
    /\ copy = 1
    /\ lines = <<>>
    /\ lineNo = 0
    /\ treeNodes = <<>>
    /\ stack = <<>>
    /\ pfsPc = "idle"

TreeNext == ParseFileStructureCall \/ ParseLine \/ ParseReturn


\* the returned tree: the root list and each node's children, as node indexes in push order
RootList == SelectSeq([k \in 1..Len(treeNodes) |-> k], LAMBDA k : treeNodes[k].parent = 0)

ChildrenOf(p) == SelectSeq([k \in 1..Len(treeNodes) |-> k], LAMBDA k : treeNodes[k].parent = p)

(***************************************************************************)
(* Claims about parseFileStructure.                                        *)
(***************************************************************************)

\* the four lines src/, ├── App.tsx, └── hooks/, "    └── useX.ts" (names shortened)
ExampleLines ==
    << <<"s", "/">>,
       <<"T", "H", "H", " ", "a">>,
       <<"L", "H", "H", " ", "h", "/">>,
       <<" ", " ", " ", " ", "L", "H", "H", " ", "u">> >>

\* line l is a branch-glyph line whose prefix holds no vertical glyph
IsTopGlyphLine(l) == TreeMatch(l).matched /\ TreeMatch(l).name # <<>> /\ TreeMatch(l).level = 0

\* line l is a top-level folder line without glyphs (the "src/" form)
IsPlainTopFolder(l) ==
    ~TreeMatch(l).matched /\ DotMatch(l).matched /\ DotMatch(l).level = 0 /\ DotMatch(l).isFolder

\* C2: parseFileStructure on the four example lines returns exactly one root node, the
\* folder src, with children App.tsx (file) and hooks (folder), hooks having the one
\* child useX.ts; and in general a branch-glyph entry right under an unglyphed
\* top-level folder line becomes a child of that folder, not a root entry.
C2_ExampleTree ==
    pfsPc = "returned" =>
        /\ lines = ExampleLines =>
              /\ Len(treeNodes) = 4
              /\ RootList = <<1>>
              /\ treeNodes[1].type = "folder" /\ treeNodes[1].name = <<"s">>
              /\ ChildrenOf(1) = <<2, 3>>
              /\ treeNodes[2].type = "file" /\ treeNodes[3].type = "folder"
              /\ ChildrenOf(3) = <<4>>
              /\ treeNodes[4].type = "file"
        /\ (Len(lines) >= 2 /\ IsPlainTopFolder(lines[1]) /\ IsTopGlyphLine(lines[2])) =>
              (Len(treeNodes) >= 2 /\ treeNodes[2].parent = 1)

\* the stack entries a node of the given level may attach to: recorded depth level - 1, a folder
ParentCandidates(level) ==
    { i \in 1..Len(stack) :
          /\ stack[i] # Hole
          /\ stack[i].level = level - 1
          /\ treeNodes[stack[i].node].type = "folder" }

Max(S) == CHOOSE x \in S : \A y \in S : y <= x

\* C3: (the function at line 26) every recognized line with a non-empty name creates a
\* node; at depth 0 it is pushed on the root list; at depth d > 0 it is pushed on the
\* children of the nearest stack entry of recorded depth d - 1 that is a folder; when
\* there is no such entry it is dropped: it is in no list of the tree.
C3_Placement ==
    [][ (copy = 1 /\ pfsPc = "loop" /\ lineNo' = lineNo + 1) =>
          LET m == Recognize(lines[lineNo + 1])
          IN  (m.matched /\ m.name # <<>>) =>
                /\ Len(treeNodes') = Len(treeNodes) + 1
                /\ LET n == treeNodes'[Len(treeNodes')]
                   IN  /\ n.level = m.level
                       /\ n.level = 0 => n.parent = 0
                       /\ (n.level > 0 /\ ParentCandidates(n.level) # {}) =>
                             n.parent = stack[Max(ParentCandidates(n.level))].node
                       /\ (n.level > 0 /\ ParentCandidates(n.level) = {}) =>
                             /\ n.parent = -1
                             /\ \A k \in 0..Len(treeNodes') : n.parent # k ]_vars

\* a parse that returned with a root node, an attached child and a dropped node
C3_Witness ==
    /\ copy = 1
    /\ pfsPc = "returned"
    /\ \E a, b, c \in 1..Len(treeNodes) :
          /\ treeNodes[a].parent = 0
          /\ treeNodes[b].parent > 0 /\ treeNodes[b].level > 0
          /\ treeNodes[c].parent = -1 /\ treeNodes[c].level > 0

\* C4 as stated: the children of a folder line at depth d are exactly the later lines at
\* depth d + 1 that come before the first later line (file or folder) of depth <= d.
C4_ClosedByAnyLine ==
    \A f, c \in 1..Len(treeNodes) :
        (copy = 1 /\ f < c /\ treeNodes[f].type = "folder") =>
            ( treeNodes[c].parent = f
              <=> /\ treeNodes[c].level = treeNodes[f].level + 1
                  /\ \A g \in (f + 1)..(c - 1) : treeNodes[g].level > treeNodes[f].level )

\* C4 amended: the children of a folder line at depth d are exactly the later lines at
\* depth d + 1 that come before the first later FOLDER line of depth <= d; a file line
\* never closes a folder.
C4_ClosedByFolderLine ==
    \A f, c \in 1..Len(treeNodes) :
        (f < c /\ treeNodes[f].type = "folder") =>
            ( treeNodes[c].parent = f
              <=> /\ treeNodes[c].level = treeNodes[f].level + 1
                  /\ \A g \in (f + 1)..(c - 1) :
                        treeNodes[g].type = "folder" => treeNodes[g].level > treeNodes[f].level )

\* a returned parse in which a depth-1 line after a depth-0 file joined the earlier
\* folder, and one in which a later folder had closed the earlier one
C4_Witness ==
    /\ pfsPc = "returned"
    /\ Len(treeNodes) >= 3
    /\ \E f, g, c \in 1..Len(treeNodes) :
          /\ f < g /\ g < c
          /\ treeNodes[f].type = "folder" /\ treeNodes[f].level = 0
          /\ treeNodes[g].type = "file" /\ treeNodes[g].level = 0
          /\ treeNodes[c].level = 1 /\ treeNodes[c].parent = f

\* C7: parseFileStructure returns a list for every text and never throws, also when a
\* folder line deeper than the stack is long has left holes in the stack.
C7_NeverThrows == pfsPc # "threw"

(***************************************************************************)
(* parseCodeBlocks (PreviewPane.tsx line 98).  "F" stands for the three    *)
(* backticks of a fence; a word character (\w) is any character other      *)
(* than the fence, white space and punctuation.                            *)
(***************************************************************************)
IsWordChar(c) == c \notin {"F", " ", "\n", "/", ".", "#"}

IsNotNewline(c) == c # "\n"

\* the character classes of the regular expression: \w, \s and [^\n]
InClass(class, c) ==
    CASE class = "w" -> IsWordChar(c)
      [] class = "s" -> IsSpace(c)
      [] class = "notNewline" -> IsNotNewline(c)

\* the length of the longest run of characters of the class that starts at text[p]
RunFrom(text, p, class) ==
    CHOOSE n \in 0..(Len(text) - p + 1) :
        /\ \A k \in p..(p + n - 1) : InClass(class, text[k])
        /\ (p + n > Len(text) \/ ~InClass(class, text[p + n]))

\* FirstFence with the end of the text accepted as the closing fence
FirstFenceOrEnd(text, p) ==
    IF \E k \in p..Len(text) : text[k] = "F"
    THEN CHOOSE k \in p..Len(text) : text[k] = "F" /\ \A j \in p..(k - 1) : text[j] # "F"
    ELSE IF p <= Len(text) + 1 THEN Len(text) + 1 ELSE 0

\* the position of the first fence at or after p, 0 when there is none: the lazy content group
FirstFence(text, p) ==
    IF \E k \in p..Len(text) : text[k] = "F"
    THEN CHOOSE k \in p..Len(text) : text[k] = "F" /\ \A j \in p..(k - 1) : text[j] # "F"
    ELSE 0

\* the tail (?:\s+([^\n]+))?\n the lazy content group tried at r with the \s+ run cut to s characters:
\* the file name is the rest of that line, the content runs to the next fence
WithFilename(text, r, s) ==
    LET fs == r + s
        fl == RunFrom(text, fs, "notNewline")
        nl == fs + fl
        q  == FirstFence(text, nl + 1)
    IN  IF fl >= 1 /\ nl <= Len(text) /\ q > 0
        THEN [ok |-> TRUE, filename |-> SubSeq(text, fs, nl - 1),
              content |-> SubSeq(text, nl + 1, q - 1), last |-> q]
        ELSE [ok |-> FALSE]

\* the tail with the optional group skipped: \nthe lazy content group
WithoutFilename(text, r) ==
    LET q == FirstFence(text, r + 1)
    IN  IF r <= Len(text) /\ text[r] = "\n" /\ q > 0
        THEN [ok |-> TRUE, filename |-> Undefined,
              content |-> SubSeq(text, r + 1, q - 1), last |-> q]
        ELSE [ok |-> FALSE]

\* the regular expression of line 100, tried at position p.  The greedy groups
\* are tried longest first: the whole word run as language (a shorter one leaves a
\* word character where \s or \n is needed), the \s+ run from its longest down, and
\* only then the match without the file name group.
MatchAt(text, p) ==
    IF text[p] # "F" THEN [ok |-> FALSE]
    ELSE LET w    == RunFrom(text, p + 1, "w")
             r    == p + 1 + w
             S    == RunFrom(text, r, "s")
             good == { s \in 1..S : WithFilename(text, r, s).ok }
             tail == IF good # {}
                     THEN WithFilename(text, r, CHOOSE s \in good : \A u \in good : u <= s)
                     ELSE WithoutFilename(text, r)
         IN  IF tail.ok
             THEN [ok |-> TRUE,
                   language |-> IF w = 0 THEN Undefined ELSE SubSeq(text, p + 1, p + w),
                   filename |-> tail.filename,
                   content  |-> tail.content,
                   last     |-> tail.last]
             ELSE [ok |-> FALSE]

\* codeBlockRegex.exec(text) with lastIndex = from - 1: the leftmost match at or after from
Exec(text, from) ==
    IF \E p \in from..Len(text) : MatchAt(text, p).ok
    THEN MatchAt(text, CHOOSE p \in from..Len(text) :
                           MatchAt(text, p).ok /\ \A j \in from..(p - 1) : ~MatchAt(text, j).ok)
    ELSE [ok |-> FALSE]

\* the default of the destructuring: language = "text"
DefaultLanguage == <<"t", "e", "x", "t">>

\* BlockThrows with the optional chaining of filename?.trim() dropped
BlockThrowsNoChaining(m) == m.filename = Undefined \/ m.content = Undefined

\* building the object throws a TypeError when .trim() is called on undefined:
\* filename?.trim() is guarded, content.trim() is not
BlockThrows(m) == m.content = Undefined

\* BlockOf with the content left untrimmed
BlockOfUntrimmed(m) ==
    [language |-> IF m.language = Undefined THEN DefaultLanguage ELSE m.language,
     filename |-> IF m.filename = Undefined THEN Undefined ELSE Trim(m.filename),
     content  |-> m.content]

\* the object pushed for one match
BlockOf(m) ==
    [language |-> IF m.language = Undefined THEN DefaultLanguage ELSE m.language,
     \* filename?.trim()
     filename |-> IF m.filename = Undefined THEN Undefined ELSE Trim(m.filename),
     \* content.trim()
     content  |-> Trim(m.content)]

\* the while loop of parseCodeBlocks from position from on: [blocks, threw]
RECURSIVE ExecLoop(_, _, _)
ExecLoop(text, from, acc) ==
    LET m == Exec(text, from)
    IN  IF ~m.ok THEN [blocks |-> acc, threw |-> FALSE]
        ELSE IF BlockThrows(m) THEN [blocks |-> acc, threw |-> TRUE]
        ELSE ExecLoop(text, m.last + 1, Append(acc, BlockOf(m)))

parseCodeBlocks(text) == ExecLoop(text, 1, <<>>)

(***************************************************************************)
(* A reply that is streamed: every chunk is appended to the content of the *)
(* in-progress assistant message and the refresh re-runs parseCodeBlocks   *)
(* on the grown content (PreviewPane.tsx line 158).                        *)
(***************************************************************************)
ContentChars == {"F", "t", " ", "\n"}

BlocksInit ==
    /\ content = <<>>
    /\ flatBlocks = <<>>
    /\ pcbThrew = FALSE

\* a chunk of one character arrives and the pipeline re-runs
StreamChunk ==
    /\ Len(content) < MaxContent
    /\ \E c \in ContentChars :
       \E result \in {parseCodeBlocks(Append(content, c))} :
          /\ content' = Append(content, c)
          /\ flatBlocks' = result.blocks
          /\ pcbThrew' = result.threw
    /\ UNCHANGED otherThanBlocks

\* a reply is complete; the next reply starts with empty content
StreamDone ==
    /\ content # <<>>
    /\ content' = <<>>
    /\ flatBlocks' = <<>>
    /\ pcbThrew' = FALSE
    /\ UNCHANGED otherThanBlocks

BlocksNext == StreamChunk \/ StreamDone


(***************************************************************************)
(* Claims about parseCodeBlocks.                                           *)
(***************************************************************************)
NoFence(t) == \A k \in 1..Len(t) : t[k] # "F"

IsToken(t) == t # <<>> /\ \A k \in 1..Len(t) : t[k] \notin {"F", " ", "\n"}

IsWord(t) == \A k \in 1..Len(t) : IsWordChar(t[k])

LanguageOf(lang) == IF lang = <<>> THEN DefaultLanguage ELSE lang

\* the content is one fence whose opening line is F lang, one or more spaces, a file name token:
\* i is the end of lang, j the start and k the end of the token, k + 1 the line break
IsNamedFence(i, j, k) ==
    /\ 1 <= i /\ i + 1 < j /\ j <= k /\ k + 1 < Len(content)
    /\ content[1] = "F" /\ content[Len(content)] = "F"
    /\ IsWord(SubSeq(content, 2, i))
    /\ \A x \in (i + 1)..(j - 1) : content[x] = " "
    /\ IsToken(SubSeq(content, j, k))
    /\ content[k + 1] = "\n"
    /\ NoFence(SubSeq(content, k + 2, Len(content) - 1))

\* the content is one fence whose opening line is F lang and nothing more, and whose
\* body starts with a character that is no whitespace: i is the end of lang
IsUnnamedFence(i) ==
    /\ 1 <= i /\ i + 2 < Len(content)
    /\ content[1] = "F" /\ content[Len(content)] = "F"
    /\ IsWord(SubSeq(content, 2, i))
    /\ content[i + 1] = "\n"
    /\ ~IsSpace(content[i + 2])
    /\ NoFence(SubSeq(content, i + 2, Len(content) - 1))

\* a fence with language and file name gives that language, that file name and the
\* trimmed body; without a language tag the language is "text"
NamedFenceFields ==
    \A i, j, k \in 1..Len(content) :
        IsNamedFence(i, j, k) =>
            flatBlocks = << [language |-> LanguageOf(SubSeq(content, 2, i)),
                             filename |-> SubSeq(content, j, k),
                             content  |-> Trim(SubSeq(content, k + 2, Len(content) - 1))] >>

\* C5 as stated: fields of a named fence as above; and when the opening line has no
\* file name token the filename is undefined and the content is the whole trimmed body.
C5_FilenameUndefined ==
    /\ NamedFenceFields
    /\ \A i \in 1..Len(content) :
          IsUnnamedFence(i) =>
              flatBlocks = << [language |-> LanguageOf(SubSeq(content, 2, i)),
                               filename |-> Undefined,
                               content  |-> Trim(SubSeq(content, i + 2, Len(content) - 1))] >>

\* C5 amended: fields of a named fence as above; when the opening line has no file name
\* token and the body starts with a non-blank line, the first body line is taken as the
\* filename and the content is the trimmed rest of the body whenever a line break
\* follows that line before the closing fence; only when the closing fence is on the
\* body's first line is the filename undefined and the content the whole trimmed body.
C5_FirstBodyLineIsFilename ==
    /\ NamedFenceFields
    /\ \A i \in 1..Len(content) :
          IsUnnamedFence(i) =>
              LET body == SubSeq(content, i + 2, Len(content) - 1)
                  n    == RunFrom(body, 1, "notNewline")
              IN  flatBlocks =
                    << [language |-> LanguageOf(SubSeq(content, 2, i)),
                        filename |-> IF n < Len(body) THEN Trim(SubSeq(body, 1, n)) ELSE Undefined,
                        content  |-> IF n < Len(body)
                                     THEN Trim(SubSeq(body, n + 2, Len(body)))
                                     ELSE Trim(body)] >>

\* the streamed content is the example: fence, language, file name, body, closing fence
\* on its own line; and one block came out of it
C5_Witness ==
    /\ content = <<"F", "t", " ", "t", "\n", "t", "\n", "F">>
    /\ Len(flatBlocks) = 1
    /\ flatBlocks[1].content = <<"t">>

NumFences(t) == Cardinality({k \in 1..Len(t) : t[k] = "F"})

\* C6: parseCodeBlocks never throws, and on every prefix of a streamed text that holds
\* no complete fence (no fence, or only an opening fence) it returns the empty list.
C6_NoCompleteFenceNoBlock ==
    /\ ~pcbThrew
    /\ NumFences(content) < 2 => flatBlocks = <<>>

\* an opening fence with language, file name and some body has been streamed, no closing fence yet
C6_Witness ==
    /\ Len(content) >= 6
    /\ content[1] = "F" /\ NumFences(content) = 1
    /\ \E k \in 2..(Len(content) - 1) : content[k] = "\n"
    /\ flatBlocks = <<>>
    /\ ~pcbThrew

(***************************************************************************)
(* The virtual module loader (virtual-view.ts).  A file name and an import *)
(* path are character sequences with "/" as separator.  The content of a   *)
(* module is kept as what the loader reads of it: the paths of the import  *)
(* statements the rewrite finds, in order; whether Babel.transform and     *)
(* new Function succeed on it; whether its body assigns a default export.  *)
(***************************************************************************)

\* resolvePath, the loop over relParts
RECURSIVE ResolveParts(_, _)
ResolveParts(parts, relParts) ==
    IF relParts = <<>> THEN parts
    ELSE LET part == Head(relParts)
         IN  IF part = <<".">> THEN ResolveParts(parts, Tail(relParts))
             ELSE IF part = <<".", ".">>
                  THEN ResolveParts(SubSeq(parts, 1, Len(parts) - 1), Tail(relParts))  \* parts.pop()
                  ELSE ResolveParts(Append(parts, part), Tail(relParts))

\* resolvePath(from, relative)
resolvePath(from, relative) ==
    LET all == SplitOn(from, "/")
    IN  JoinWith(ResolveParts(SubSeq(all, 1, Len(all) - 1), SplitOn(relative, "/")), "/")

\* the compiled unit stored for a module: its imports rewritten to requireModule calls
\* on the resolved paths
UnitOf(mod) ==
    [module  |-> mod,
     imports |-> [k \in 1..Len(mod.content.imports) |->
                     resolvePath(mod.filename, mod.content.imports[k])]]

\* the forEach of registerModules over mods, starting from registry reg: a module whose
\* compilation throws (or gives no code) leaves no entry, a later module of the same
\* file name replaces an earlier one
RECURSIVE RegisterEach(_, _)
RegisterEach(reg, mods) ==
    IF mods = <<>> THEN reg
    ELSE LET mod == Head(mods)
             next == IF mod.content.compiles
                     THEN [f \in (DOMAIN reg) \cup {mod.filename} |->
                              IF f = mod.filename THEN UnitOf(mod) ELSE reg[f]]
                     ELSE reg
         IN  RegisterEach(next, Tail(mods))

EmptyRegistry == [f \in {} |-> f]

\* registerModules without the reset of line 13
registerModulesNoReset(reg, mods) == RegisterEach(reg, mods)

\* registerModules(modules): the registry it leaves, given the registry it finds
registerModules(reg, mods) == RegisterEach(EmptyRegistry, mods)

\* moduleRegistry is an object literal: a name that is no own entry is looked up on
\* Object.prototype.  "constructor" is the function Object, which returns when called;
\* "__proto__" is the prototype object itself, truthy and not callable.
ConstructorKey == <<"c", "o", "n", "s", "t", "r", "u", "c", "t", "o", "r">>
ProtoKey == <<"_", "_", "p", "r", "o", "t", "o", "_", "_">>
ObjectPrototypeKeys == {ConstructorKey, ProtoKey}

\* moduleRegistry[filename]
Lookup(reg, f) ==
    IF f \in DOMAIN reg THEN [kind |-> "unit", unit |-> reg[f]]
    ELSE IF f = ConstructorKey THEN [kind |-> "builtin"]
    ELSE IF f = ProtoKey THEN [kind |-> "object"]
    ELSE [kind |-> "undefined"]

\* the file names and module contents the preview passes are run on
FileA == <<"s", "/", "A", ".", "t">>                  \* src/A.tsx
FileB == <<"s", "/", "B", ".", "t">>                  \* src/B.tsx
FileBNoExt == <<"s", "/", "B">>                       \* src/B

Content(imports, compiles, hasDefault) ==
    [imports |-> imports, compiles |-> compiles, hasDefault |-> hasDefault]

ModulePool ==
    { [filename |-> FileA, content |-> Content(<< <<".", "/", "B">> >>, TRUE, TRUE)],
      [filename |-> FileA, content |-> Content(<< <<".", "/", "B", ".", "t">> >>, TRUE, TRUE)],
      [filename |-> FileA,
       content  |-> Content(<< <<".", ".", "/", "s", "/", "B", ".", "t">> >>, TRUE, TRUE)],
      [filename |-> FileA, content |-> Content(<< <<".", "/", "A", ".", "t">> >>, TRUE, TRUE)],
      [filename |-> FileA,
       content  |-> Content(<< <<".", "/", "B", ".", "t">>, <<".", "/", "B", ".", "t">> >>,
                            TRUE, TRUE)],
      [filename |-> FileB, content |-> Content(<<>>, TRUE, TRUE)],
      [filename |-> FileB, content |-> Content(<<>>, FALSE, TRUE)],
      [filename |-> FileB, content |-> Content(<<>>, TRUE, FALSE)] }

RequireTargets == {FileA, FileB, FileBNoExt, ConstructorKey, ProtoKey}

NoModule == [filename |-> <<>>, content |-> Content(<<>>, FALSE, FALSE)]

NotRequired == [kind |-> "none", of |-> NoModule, filename |-> <<>>]

\* throw new Error(`Module ${filename} not found`)
NotFound(f) == [kind |-> "notFound", of |-> NoModule, filename |-> f]

\* mod(...) on a value that is no function: TypeError
NotCallable(f) == [kind |-> "typeError", of |-> NoModule, filename |-> f]

\* the engine's RangeError when the call stack is exhausted
StackOverflow(f) == [kind |-> "rangeError", of |-> NoModule, filename |-> f]

\* exports.default || exports for a unit that has run
ExportsOf(mod) ==
    [kind |-> IF mod.content.hasDefault THEN "function" ELSE "exports",
     of |-> mod, filename |-> mod.filename]

\* exports.default || exports after the function Object was called as the unit
EmptyExports(f) == [kind |-> "exports", of |-> NoModule, filename |-> f]

\* value.default for a value requireModule returned (the rewritten import, line 23): a
\* component function has no property "default"; the exports object is returned only
\* when its "default" is falsy
DefaultOf(value) == [kind |-> "undefined", of |-> NoModule, filename |-> value.filename]

\* the depth of requireModule calls the engine's stack allows
MaxStack == 4

LoaderInit ==
    /\ modules = <<>>
    /\ moduleRegistry = EmptyRegistry
    /\ callStack = <<>>
    /\ entry = <<>>
    /\ required = NotRequired
    /\ earlier = {}
    /\ executed = <<>>

\* LivePreview effect, line 21: registerModules(modules) of a new pass is entered and
\* resets the registry (line 13); the modules of the pass follow one by one
RegisterModulesCall ==
    /\ callStack = <<>>
    /\ modules' = <<>>
    /\ moduleRegistry' = registerModules(moduleRegistry, <<>>)
    /\ entry' = <<>>
    /\ required' = NotRequired
    /\ earlier' = earlier \cup DOMAIN moduleRegistry
    /\ executed' = <<>>
    /\ UNCHANGED callStack
    /\ UNCHANGED otherThanLoader

\* one iteration of modules.forEach (lines 15 to 42) on the next module of the pass
RegisterNextModule ==
    /\ callStack = <<>>
    /\ required = NotRequired
    /\ Len(modules) < MaxModules
    /\ \E mod \in ModulePool :
          /\ modules' = Append(modules, mod)
          /\ moduleRegistry' = RegisterEach(moduleRegistry, <<mod>>)
    /\ UNCHANGED <<callStack, entry, required, earlier, executed>>
    /\ UNCHANGED otherThanLoader

\* requireModule(f) entered with the call stack cs: the new call stack and, when the
\* call ends at once, its outcome (a value returned to the caller, or an error thrown)
EnterIn(reg, f, cs) ==
    LET found == Lookup(reg, f)
    IN  IF found.kind = "undefined" THEN [stack |-> cs, done |-> TRUE, out |-> NotFound(f)]
        ELSE IF found.kind = "object" THEN [stack |-> cs, done |-> TRUE, out |-> NotCallable(f)]
        ELSE IF found.kind = "builtin" THEN [stack |-> cs, done |-> TRUE, out |-> EmptyExports(f)]
        ELSE IF Len(cs) >= MaxStack THEN [stack |-> cs, done |-> TRUE, out |-> StackOverflow(f)]
        ELSE [stack |-> Append(cs, [unit |-> found.unit, pc |-> 1, bound |-> <<>>]),
              done |-> FALSE,
              out |-> NotRequired]

Enter(f, cs) == EnterIn(moduleRegistry, f, cs)

IsError(v) == v.kind \in {"notFound", "typeError", "rangeError"}

\* LivePreview effect, line 22: requireModule(entry)
RequireModuleCall ==
    /\ callStack = <<>>
    /\ required = NotRequired
    /\ \E f \in RequireTargets :
          LET e == Enter(f, <<>>)
          IN  /\ entry' = f
              /\ callStack' = e.stack
              /\ required' = e.out
              /\ executed' = IF e.done THEN executed ELSE Append(executed, f)
    /\ UNCHANGED <<modules, moduleRegistry, earlier>>
    /\ UNCHANGED otherThanLoader

\* the running unit reaches its next rewritten import: requireModule(resolved).default
\* An error thrown by the inner call unwinds every unit (none catches it).
RunImport ==
    /\ callStack # <<>>
    /\ LET top == callStack[Len(callStack)]
       IN  /\ top.pc <= Len(top.unit.imports)
           /\ LET e == Enter(top.unit.imports[top.pc], callStack)
              IN  IF e.done /\ IsError(e.out)
                  THEN /\ callStack' = <<>>
                       /\ required' = e.out
                  ELSE IF e.done
                  THEN /\ callStack' = [callStack EXCEPT
                                           ![Len(callStack)].pc = top.pc + 1,
                                           ![Len(callStack)].bound =
                                               Append(@, DefaultOf(e.out))]
                       /\ UNCHANGED required
                  ELSE /\ callStack' = e.stack
                       /\ UNCHANGED required
           /\ executed' = IF Enter(top.unit.imports[top.pc], callStack).done THEN executed
                          ELSE Append(executed, top.unit.imports[top.pc])
    /\ UNCHANGED <<modules, moduleRegistry, entry, earlier>>
    /\ UNCHANGED otherThanLoader

\* the running unit reaches "return exports": requireModule returns exports.default || exports
RunReturn ==
    /\ callStack # <<>>
    /\ LET top == callStack[Len(callStack)]
           rest == SubSeq(callStack, 1, Len(callStack) - 1)
       IN  /\ top.pc > Len(top.unit.imports)
           /\ IF rest = <<>>
              THEN /\ callStack' = <<>>
                   /\ required' = ExportsOf(top.unit.module)
              ELSE /\ callStack' = [rest EXCEPT
                                     ![Len(rest)].pc = rest[Len(rest)].pc + 1,
                                     ![Len(rest)].bound =
                                         Append(@, DefaultOf(ExportsOf(top.unit.module)))]
                   /\ UNCHANGED required
    /\ UNCHANGED <<modules, moduleRegistry, entry, earlier, executed>>
    /\ UNCHANGED otherThanLoader

LoaderNext ==
    RegisterModulesCall \/ RegisterNextModule \/ RequireModuleCall \/ RunImport \/ RunReturn

(***************************************************************************)
(* Properties of the module loader.                                        *)
(***************************************************************************)
Names(mods) == {mods[i].filename : i \in 1..Len(mods)}

\* the requireModule call of the pass has ended
RequireEnded == callStack = <<>> /\ required # NotRequired

\* C8: requireModule(filename) for a filename that has no entry in the registry throws
\* the error "Module <filename> not found"; it never returns a value.
C8_UnregisteredNotFound ==
    (RequireEnded /\ entry \notin DOMAIN moduleRegistry) => required = NotFound(entry)

\* a path that starts with a "." or ".." segment
IsRelative(path) == SplitOn(path, "/")[1] \in {<<".">>, <<".", ".">>}

\* the pass registered exactly a module A and a module B, both compiled, both with a
\* default export, and A's only import is a relative path that leads to B
RegisteredAImportingB ==
    /\ Len(modules) = 2
    /\ \E i, j \in 1..2 :
          /\ modules[i].filename = FileA
          /\ modules[j].filename = FileB
          /\ modules[i].content.compiles /\ modules[i].content.hasDefault
          /\ modules[j].content.compiles /\ modules[j].content.hasDefault
          /\ Len(modules[i].content.imports) = 1
          /\ IsRelative(modules[i].content.imports[1])
          /\ resolvePath(FileA, modules[i].content.imports[1]) \in {FileB, FileBNoExt}
          /\ modules[j].content.imports = <<>>

\* C9: with A and B registered and A importing B by a relative path, requireModule(A)
\* returns A's default export, a function, and throws nothing.
C9_RelativeImportLoads ==
    (RequireEnded /\ entry = FileA /\ RegisteredAImportingB) =>
        /\ required.kind = "function"
        /\ required.of.filename = FileA

\* C10: the registry holds entries only for modules of the current pass, and what
\* requireModule returns was compiled from a module of the current pass, so that a
\* filename registered only in an earlier pass is not found.
C10_RegistryRebuilt ==
    /\ DOMAIN moduleRegistry \subseteq Names(modules)
    /\ \A f \in DOMAIN moduleRegistry :
          \E i \in 1..Len(modules) : modules[i] = moduleRegistry[f].module
    /\ \A i \in 1..Len(callStack) :
          \E k \in 1..Len(modules) : modules[k] = callStack[i].unit.module
    /\ (required.kind \in {"function", "exports"} /\ required.of # NoModule) =>
          \E i \in 1..Len(modules) : modules[i] = required.of
    /\ (RequireEnded /\ entry \in earlier \ Names(modules)) => IsError(required)

\* A imports B, B was registered in an earlier pass only: requiring A fails on B
C10_Witness ==
    /\ FileB \in earlier
    /\ Names(modules) = {FileA}
    /\ entry = FileA
    /\ required = NotFound(FileB)

\* C11: registerModules runs no unit, and within one pass no unit is run twice: the first
\* reference to a filename runs its unit, later references do not run it again.
C11_RunOncePerPass ==
    /\ (callStack = <<>> /\ required = NotRequired) => executed = <<>>
    /\ \A i, j \in 1..Len(executed) : i # j => executed[i] # executed[j]

\* the unit of f imports f again, at once or through the unit it imports
OnCycle(f) ==
    /\ f \in DOMAIN moduleRegistry
    /\ \E k \in 1..Len(moduleRegistry[f].imports) :
          LET g == moduleRegistry[f].imports[k]
          IN  \/ g = f
              \/ /\ g \in DOMAIN moduleRegistry
                 /\ \E j \in 1..Len(moduleRegistry[g].imports) :
                        moduleRegistry[g].imports[j] = f

\* C26: requireModule(entry) on registered modules ends by returning a value or by
\* throwing "not found", also when the imports form a cycle: the calls never nest until
\* the call stack is exhausted.
C26_RequireTerminates ==
    /\ Len(callStack) <= MaxStack
    /\ (RequireEnded /\ entry \in DOMAIN moduleRegistry) =>
           required.kind \in {"function", "exports", "notFound"}
    /\ (RequireEnded /\ OnCycle(entry)) => ~IsError(required)

\* C27: in a running unit, the name bound by an import whose path leads to a registered
\* module with a default export is that default export, the value requireModule returns
\* for the module.
C27_ImportBindsDefault ==
    \A i \in 1..Len(callStack) : \A k \in 1..Len(callStack[i].bound) :
        LET target == callStack[i].unit.imports[k]
        IN  (target \in DOMAIN moduleRegistry /\ moduleRegistry[target].module.content.hasDefault)
                => callStack[i].bound[k] = ExportsOf(moduleRegistry[target].module)

(***************************************************************************)
(* LivePreview (gpt-version/LivePreview.tsx): the effect of lines 14 to 34 *)
(* runs a preview pass; React renders the roots it creates after the       *)
(* effect has returned.                                                    *)
(***************************************************************************)
NoError == [kind |-> "null", of |-> NoModule, filename |-> <<>>]

\* the module lists and entries LivePreview is given
PreviewModules ==
    { << [filename |-> FileA, content |-> Content(<< <<".", "/", "B", ".", "t">> >>, TRUE, TRUE)],
         [filename |-> FileB, content |-> Content(<<>>, TRUE, TRUE)] >>,
      << [filename |-> FileA, content |-> Content(<< <<".", "/", "B">> >>, TRUE, TRUE)],
         [filename |-> FileB, content |-> Content(<<>>, TRUE, TRUE)] >>,
      << [filename |-> FileA, content |-> Content(<< <<".", "/", "A", ".", "t">> >>, TRUE, TRUE)],
         [filename |-> FileB, content |-> Content(<<>>, FALSE, TRUE)] >>,
      << [filename |-> FileB, content |-> Content(<<>>, TRUE, FALSE)] >>,
      << [filename |-> FileB, content |-> Content(<<>>, TRUE, TRUE)],
         [filename |-> FileA, content |-> Content(<<>>, FALSE, TRUE)] >> }

PreviewEntries == {FileA, FileB, ConstructorKey}

\* mountRef.current: the host div is rendered only while error is null (lines 38 to 45)
MountRefIsNull == error # NoError

\* a value for which "!App" holds; requireModule returns a function or an object
IsFalsy(v) == v.kind \notin {"function", "exports"}

\* the compilation of a module of the pass threw inside registerModules (line 39)
CompileErrorInPass == \E i \in 1..Len(modules) : ~modules[i].content.compiles

PreviewInit ==
    /\ error = NoError
    /\ effectPc = "idle"
    /\ roots = <<>>
    /\ hostContent = {}
    /\ uncaught = FALSE
    /\ props = [modules |-> <<>>, entry |-> <<>>]

\* the effect runs with new props: guard, setError(null), innerHTML = '',
\* registerModules(modules), and requireModule(entry) is entered (lines 15 to 22)
EffectStart ==
    /\ effectPc = "idle"
    /\ callStack = <<>>
    /\ Len(roots) < MaxRoots
    /\ ~MountRefIsNull
    /\ \E ms \in PreviewModules, f \in PreviewEntries :
       \E reg \in {registerModules(moduleRegistry, ms)} :
       \E e \in {EnterIn(reg, f, <<>>)} :
          /\ modules' = ms
          /\ moduleRegistry' = reg
          /\ entry' = f
          /\ callStack' = e.stack
          /\ required' = e.out
          /\ executed' = IF e.done THEN <<>> ELSE <<f>>
          /\ props' = [modules |-> ms, entry |-> f]
    /\ earlier' = earlier \cup DOMAIN moduleRegistry
    /\ error' = NoError
    /\ hostContent' = {}
    /\ effectPc' = "running"
    /\ UNCHANGED <<roots, uncaught>>
    /\ UNCHANGED otherThanPreview

\* requireModule(entry) has returned or thrown: lines 24 to 33
EffectEnd ==
    /\ effectPc = "running"
    /\ callStack = <<>>
    /\ IF IsError(required)
       THEN /\ error' = required                              \* setError(err.message)
            /\ UNCHANGED roots
       ELSE IF IsFalsy(required)
       THEN /\ error' = [kind |-> "noComponent", of |-> NoModule, filename |-> entry]
            /\ UNCHANGED roots
       ELSE /\ roots' = Append(roots, [app |-> required, status |-> "scheduled"])
            /\ UNCHANGED error
    /\ effectPc' = "idle"
    /\ UNCHANGED <<hostContent, uncaught, props>>
    /\ UNCHANGED loaderVars
    /\ UNCHANGED otherThanPreview

\* React renders a root that root.render(<App />) scheduled: a function is rendered
\* into the host element; an element whose type is an object makes React throw, outside
\* the effect, and unmount the root
ReactRender ==
    /\ \E k \in 1..Len(roots) :
          /\ roots[k].status = "scheduled"
          /\ IF roots[k].app.kind = "function"
             THEN /\ roots' = [roots EXCEPT ![k].status = "rendered"]
                  /\ hostContent' = hostContent \cup {k}
                  /\ UNCHANGED uncaught
             ELSE /\ roots' = [roots EXCEPT ![k].status = "failed"]
                  /\ uncaught' = TRUE
                  /\ UNCHANGED hostContent
    /\ UNCHANGED <<error, effectPc, props>>
    /\ UNCHANGED loaderVars
    /\ UNCHANGED otherThanPreview

\* the effect runs with new props while the error is shown: the host div is not
\* rendered, mountRef.current is null and the effect returns at line 15
EffectSkipped ==
    /\ effectPc = "idle"
    /\ callStack = <<>>
    /\ MountRefIsNull
    /\ \E ms \in PreviewModules, f \in PreviewEntries :
          /\ props # [modules |-> ms, entry |-> f]
          /\ props' = [modules |-> ms, entry |-> f]
    /\ UNCHANGED <<error, effectPc, roots, hostContent, uncaught>>
    /\ UNCHANGED loaderVars
    /\ UNCHANGED otherThanPreview

PreviewNext ==
    EffectStart \/ EffectSkipped \/ RunImport \/ RunReturn \/ EffectEnd \/ ReactRender

\* the pass of the effect has ended
PassEnded == effectPc = "idle" /\ modules # <<>>

\* C12: every error raised while compiling, requiring or instantiating the modules of a
\* pass is caught by the effect and becomes the error state; none leaves LivePreview.
C12_ErrorsCaught ==
    /\ ~uncaught
    /\ (PassEnded /\ (CompileErrorInPass \/ IsError(required))) => error # NoError

LiveRoots == {k \in 1..Len(roots) : roots[k].status \in {"scheduled", "rendered"}}

\* C13: after any sequence of effect invocations at most one root is live on the host
\* element, and the registry holds only modules of the last invocation.
C13_SingleLiveRoot ==
    /\ Cardinality(LiveRoots) <= 1
    /\ DOMAIN moduleRegistry \subseteq Names(modules)

\* every module of the props compiles and the entry is the filename of one of them
GoodProps(p) ==
    /\ \A i \in 1..Len(p.modules) : p.modules[i].content.compiles
    /\ p.entry \in Names(p.modules)

\* the error is shown and the effect has since been given props that compile and hold
\* the entry
GoodPropsInError ==
    /\ error # NoError
    /\ effectPc = "idle"
    /\ GoodProps(props)
    /\ props # [modules |-> modules, entry |-> entry]

\* C25: when the error is shown and the props change to modules that compile and an
\* entry that is registered, the error is eventually cleared and the entry mounted.
C25_Recovers ==
    [](GoodPropsInError => <>(error = NoError /\ entry = props.entry /\ LiveRoots # {}))

(***************************************************************************)
(* The hierarchical blocks: transformCodeBlocks (@/lib/code-structure-     *)
(* block) and mergeCodeStructBlocks, getAllFilesFromBlocks (@/lib/code-    *)
(* structure-merge) are not part of the sources at hand; they are modelled *)
(* from sections 4.3 and 4.4 of the specification.  A CodeStructBlock is a *)
(* record [type, filename, language, content, children]: a folder carries  *)
(* the segment of the path as its filename, a file the whole filename.     *)
(***************************************************************************)
FileBlock(name, block) ==
    [type |-> "file", filename |-> name, language |-> block.language,
     content |-> block.content, children |-> <<>>]

FolderBlock(name, children) ==
    [type |-> "folder", filename |-> name, language |-> Undefined,
     content |-> Undefined, children |-> children]

\* the index of the first block of the list with this type and filename, 0 if none
IndexOfBlock(nodes, type, name) ==
    LET hits == {i \in 1..Len(nodes) : nodes[i].type = type /\ nodes[i].filename = name}
    IN  IF hits = {} THEN 0 ELSE CHOOSE i \in hits : \A j \in hits : i <= j

\* walk or create the folders of the path, then attach the leaf
RECURSIVE AttachLeaf(_, _, _)
AttachLeaf(nodes, segments, leaf) ==
    IF Len(segments) <= 1 THEN Append(nodes, leaf)
    ELSE LET i == IndexOfBlock(nodes, "folder", Head(segments))
         IN  IF i > 0
             THEN [nodes EXCEPT ![i].children = AttachLeaf(@, Tail(segments), leaf)]
             ELSE Append(nodes, FolderBlock(Head(segments),
                                            AttachLeaf(<<>>, Tail(segments), leaf)))

\* the name given to the i-th block when it has no filename
SynthesizedName(i) == <<"f", "i", "l", "e", "-">> \o [k \in 1..i |-> "i"]

RECURSIVE TransformFrom(_, _, _)
TransformFrom(flat, i, acc) ==
    IF i > Len(flat) THEN acc
    ELSE LET name == IF flat[i].filename = Undefined THEN SynthesizedName(i)
                     ELSE flat[i].filename
         IN  TransformFrom(flat, i + 1,
                           AttachLeaf(acc, SplitOn(name, "/"), FileBlock(name, flat[i])))

\* transform(flatBlocks): the tree of folders and files of the flat blocks
transformCodeBlocks(flat) == TransformFrom(flat, 1, <<>>)

\* merge(accumulated, incoming): a leaf of both is replaced, a folder of both is merged
\* recursively, everything else is kept or added
RECURSIVE mergeCodeStructBlocks(_, _)
mergeCodeStructBlocks(accumulated, incoming) ==
    IF incoming = <<>> THEN accumulated
    ELSE LET n == Head(incoming)
             i == IndexOfBlock(accumulated, n.type, n.filename)
             merged == IF i = 0 THEN Append(accumulated, n)
                       ELSE IF n.type = "file" THEN [accumulated EXCEPT ![i] = n]
                       ELSE [accumulated EXCEPT
                                ![i].children = mergeCodeStructBlocks(@, n.children)]
         IN  mergeCodeStructBlocks(merged, Tail(incoming))

\* the all-files traversal: the file blocks of the tree, depth first
RECURSIVE getAllFilesFromBlocks(_)
getAllFilesFromBlocks(nodes) ==
    IF nodes = <<>> THEN <<>>
    ELSE (IF Head(nodes).type = "file" THEN <<Head(nodes)>>
          ELSE getAllFilesFromBlocks(Head(nodes).children))
         \o getAllFilesFromBlocks(Tail(nodes))

(***************************************************************************)
(* The fileStructure memo of PreviewPane (lines 148 to 226): the versions  *)
(* are recomputed from the assistant messages on every change of the       *)
(* messages or of the active version.                                      *)
(***************************************************************************)
RECURSIVE ParseLinesFrom(_, _, _)
ParseLinesFrom(ls, i, st) ==
    IF i > Len(ls) \/ st.threw THEN st
    ELSE ParseLinesFrom(ls, i + 1, ParseStep(1, st, i, ls[i]))

\* parseFileStructure(text) of line 26, run to its end: the nodes it created
parseFileStructure(text) ==
    ParseLinesFrom(Split(FilterThinking(text)), 1,
                   [nodes |-> <<>>, stack |-> <<>>, threw |-> FALSE]).nodes

\* structure.length: the number of nodes of the root list
RootLength(nodes) == Cardinality({k \in 1..Len(nodes) : nodes[k].parent = 0})

NoVersion == <<>>

\* `v${i + 1}-${message.timestamp.getTime()}`, i counted from 1 here
VersionId(i, message) == <<i, message.timestamp>>

\* line 168 without the merge: the blocks of the message alone
NextAccumulatedNoMerge(accumulated, transformedBlocks) == transformedBlocks

\* lines 166 to 168: accumulatedCodeBlocks after a message with these transformed blocks
NextAccumulated(accumulated, transformedBlocks) ==
    IF transformedBlocks # <<>>
    THEN mergeCodeStructBlocks(accumulated, transformedBlocks)
    ELSE accumulated

\* messages.filter((m) => m.role === "assistant")
AssistantMessages(msgs) == SelectSeq(msgs, LAMBDA m : m.role = "assistant")

\* the built-in structure returned when nothing was parsed
Placeholder == [placeholder |-> TRUE, nodes |-> <<>>]

\* a fence that names its file on the opening line
FenceText(name, body) ==
    <<"F", "t", " ">> \o name \o <<"\n">> \o body \o <<"\n", "F">>

FileNames == { <<"a">>, <<"s", "/", "b">>, <<"s", "/", "c">> }

Bodies == { <<"x">>, <<"y">> }

AssistantTexts ==
    { FenceText(<<"a">>, <<"x">>),
      FenceText(<<"a">>, <<"y">>),
      FenceText(<<"s", "/", "b">>, <<"x">>),
      FenceText(<<"s", "/", "c">>, <<"x">>),
      <<"F", "t", "\n", "x", "F">>,                   \* a fence without a filename
      <<"t", " ", "t">> }                             \* prose

UserTexts == { FenceText(<<"u">>, <<"x">>) }

\* the greeting ChatInterface starts with (ChatInterface.tsx lines 204 to 211): prose
Greeting == [role |-> "assistant", content |-> <<"t", " ", "t">>, timestamp |-> 1]

\* PreviewPane is constructed with the greeting as its messages; the memo has not run
VersionsInit ==
    /\ messages = <<Greeting>>
    /\ memoDeps = [messages |-> <<>>, activeVersionId |-> NoVersion]
    /\ memoPc = "idle"
    /\ memoIndex = 0
    /\ parsedStructure = <<>>
    /\ newVersions = <<>>
    /\ accumulatedCodeBlocks = <<>>
    /\ versions = <<>>
    /\ activeVersionId = NoVersion
    /\ codeBlocks = <<>>
    /\ fileStructure = Placeholder

\* the parent re-renders PreviewPane with one more message (ChatInterface.tsx lines
\* 240 and 244); the clock has advanced since the last one
ReceiveMessage ==
    /\ memoPc = "idle"
    /\ Len(messages) <= MaxMessages
    /\ \E role \in {"user", "assistant"} :
       \E text \in IF role = "user" THEN UserTexts ELSE AssistantTexts :
          messages' = Append(messages, [role |-> role, content |-> text,
                                        timestamp |-> Len(messages) + 1])
    /\ UNCHANGED <<memoDeps, memoVars, versions, activeVersionId, codeBlocks, fileStructure>>
    /\ UNCHANGED otherThanVersions

\* the memo re-runs because messages or activeVersionId changed: lines 149 to 152
MemoStart ==
    /\ memoPc = "idle"
    /\ memoDeps # [messages |-> messages, activeVersionId |-> activeVersionId]
    /\ memoDeps' = [messages |-> messages, activeVersionId |-> activeVersionId]
    /\ memoPc' = "loop"
    /\ memoIndex' = 0
    /\ parsedStructure' = <<>>
    /\ newVersions' = <<>>
    /\ accumulatedCodeBlocks' = <<>>
    /\ UNCHANGED <<messages, versions, activeVersionId, codeBlocks, fileStructure>>
    /\ UNCHANGED otherThanVersions

\* one iteration of the for loop: lines 155 to 181
MemoIteration ==
    /\ memoPc = "loop"
    /\ memoIndex < Len(AssistantMessages(messages))
    /\ \E message \in {AssistantMessages(messages)[memoIndex + 1]} :
       \E structure \in {parseFileStructure(message.content)} :
       \E transformedBlocks \in {transformCodeBlocks(parseCodeBlocks(message.content).blocks)} :
       \E accumulated \in {NextAccumulated(accumulatedCodeBlocks, transformedBlocks)} :
          /\ parsedStructure' = IF RootLength(structure) > 0 THEN structure
                                ELSE parsedStructure
          /\ accumulatedCodeBlocks' = accumulated
          /\ newVersions' =
                 IF transformedBlocks # <<>>
                 THEN Append(newVersions,
                             [id |-> VersionId(memoIndex + 1, message),
                              name |-> memoIndex + 1,
                              codeBlocks |-> accumulated,
                              timestamp |-> message.timestamp])
                 ELSE newVersions
    /\ memoIndex' = memoIndex + 1
    /\ UNCHANGED <<messages, memoDeps, memoPc, versions, activeVersionId, codeBlocks,
                   fileStructure>>
    /\ UNCHANGED otherThanVersions

\* after the loop: lines 184 to 225
MemoReturn ==
    /\ memoPc = "loop"
    /\ memoIndex = Len(AssistantMessages(messages))
    /\ versions' = newVersions
    /\ IF /\ newVersions # <<>>
          /\ \/ activeVersionId = NoVersion
             \/ \A k \in 1..Len(newVersions) : newVersions[k].id # activeVersionId
       THEN /\ activeVersionId' = newVersions[Len(newVersions)].id
            /\ codeBlocks' = newVersions[Len(newVersions)].codeBlocks
       ELSE UNCHANGED <<activeVersionId, codeBlocks>>
    /\ fileStructure' = IF RootLength(parsedStructure) = 0 /\ newVersions = <<>>
                        THEN Placeholder
                        ELSE [placeholder |-> FALSE, nodes |-> parsedStructure]
    /\ memoPc' = "idle"
    /\ UNCHANGED <<messages, memoDeps, memoIndex, parsedStructure, newVersions,
                   accumulatedCodeBlocks>>
    /\ UNCHANGED otherThanVersions

VersionsNext == ReceiveMessage \/ MemoStart \/ MemoIteration \/ MemoReturn

(***************************************************************************)
(* Properties of the versions.                                             *)
(***************************************************************************)
\* the memo has run on the messages as they are now
Recomputed == memoPc = "idle" /\ memoDeps.messages = messages

\* the file a message introduces: the message is one fence naming the file
Introduces(message, name) == \E body \in Bodies : message.content = FenceText(name, body)

IntroducesFile(message) == \E name \in FileNames : Introduces(message, name)

IntroducedBy(message) == CHOOSE name \in FileNames : Introduces(message, name)

IsProse(message) == \A k \in 1..Len(message.content) : message.content[k] # "F"

\* the positions, among the assistant messages, of those that introduce a file
Introducing ==
    LET am == AssistantMessages(messages)
    IN  SelectSeq([k \in 1..Len(am) |-> k], LAMBDA k : IntroducesFile(am[k]))

\* every assistant message that has code introduces one file, and no two the same
EachIntroducesOneNewFile ==
    LET am == AssistantMessages(messages)
    IN  /\ \A k \in 1..Len(am) : IntroducesFile(am[k]) \/ IsProse(am[k])
        /\ \A j, k \in 1..Len(Introducing) :
               j < k => IntroducedBy(am[Introducing[j]]) # IntroducedBy(am[Introducing[k]])

FilesOf(version) ==
    LET files == getAllFilesFromBlocks(version.codeBlocks)
    IN  {files[i].filename : i \in 1..Len(files)}

\* C1: when each of the N assistant messages that carry code introduces one new file,
\* the recomputed version list has N versions in message order, and version k holds
\* every file that the messages 1..k introduced.
C1_VersionPerMessage ==
    (Recomputed /\ EachIntroducesOneNewFile) =>
        LET am == AssistantMessages(messages)
        IN  /\ Len(versions) = Len(Introducing)
            /\ \A k \in 1..Len(versions) :
                  /\ versions[k].id = VersionId(Introducing[k], am[Introducing[k]])
                  /\ versions[k].timestamp = am[Introducing[k]].timestamp
                  /\ \A j \in 1..k :
                        IntroducedBy(am[Introducing[j]]) \in FilesOf(versions[k])

\* three assistant messages introduced a, s/b and s/c, and the versions are recomputed
C1_Witness ==
    /\ Recomputed
    /\ EachIntroducesOneNewFile
    /\ Len(Introducing) = 3
    /\ Len(versions) = 3
    /\ FilesOf(versions[1]) = {<<"a">>}
    /\ FilesOf(versions[3]) = FileNames

\* the message has no fence and no line of a directory tree in either notation
OnlyProse(message) ==
    \A k \in 1..Len(message.content) : message.content[k] \notin {"F", "T", "L", "V", "/"}

\* the positions of the assistant messages whose parse is not empty
Structured ==
    LET am == AssistantMessages(messages)
    IN  {k \in 1..Len(am) : RootLength(parseFileStructure(am[k].content)) > 0}

\* C22: when the assistant messages are only prose the recomputed file structure is the
\* placeholder; otherwise it is the parse of the latest assistant message whose parse
\* is not empty.
C22_PlaceholderForProse ==
    Recomputed =>
        LET am == AssistantMessages(messages)
        IN  IF \A k \in 1..Len(am) : OnlyProse(am[k])
            THEN fileStructure = Placeholder
            ELSE /\ Structured # {}
                 /\ fileStructure =
                        [placeholder |-> FALSE,
                         nodes |-> parseFileStructure(
                                       am[CHOOSE k \in Structured :
                                              \A j \in Structured : j <= k].content)]

(***************************************************************************)
(* PreviewPane: the tabs, the version effect (lines 229 to 242), the       *)
(* handlers and the props given to LivePreview (lines 551 to 566).         *)
(***************************************************************************)
NoTab == <<>>

NoBlock == [type |-> "none", filename |-> <<>>, language |-> Undefined,
            content |-> Undefined, children |-> <<>>]

\* a fence in the language lang that names its file on the opening line
FenceIn(lang, name, body) ==
    <<"F">> \o lang \o <<" ">> \o name \o <<"\n">> \o body \o <<"\n", "F">>

\* "t" stands for tsx, "j" for jsx, "c" for css
ComponentLanguages == { <<"t">>, <<"j">> }

PaneTexts ==
    { FenceIn(<<"t">>, <<"a">>, <<"x">>),
      FenceIn(<<"t">>, <<"s", "/", "b">>, <<"x">>),
      FenceIn(<<"c">>, <<"k">>, <<"x">>) }

\* the contents the editor saves
NewContents == { <<"e">> }

RECURSIVE findFileByName(_, _)
findFileByName(nodes, filename) ==
    IF nodes = <<>> THEN NoBlock
    ELSE LET node == Head(nodes)
             found == IF node.type = "folder" THEN findFileByName(node.children, filename)
                      ELSE NoBlock
         IN  IF node.type = "file" /\ node.filename = filename THEN node
             ELSE IF found # NoBlock THEN found
             ELSE findFileByName(Tail(nodes), filename)

activeTabContent ==
    IF activeTab = NoTab THEN NoBlock ELSE findFileByName(codeBlocks, activeTab)

IsComponent(block) == block.language \in ComponentLanguages

\* the blocks of the top level that are component sources
ComponentBlocks(nodes) == SelectSeq(nodes, IsComponent)

\* the entry prop: lines 554 to 558
EntryProp ==
    IF activeTabContent # NoBlock /\ activeTabContent.filename # <<>>
    THEN activeTabContent.filename
    ELSE IF ComponentBlocks(codeBlocks) # <<>>
    THEN Head(ComponentBlocks(codeBlocks)).filename
    ELSE <<>>

\* the modules prop: lines 559 to 564
ModulesProp ==
    [k \in 1..Len(ComponentBlocks(codeBlocks)) |->
        [filename |-> ComponentBlocks(codeBlocks)[k].filename,
         content |-> ComponentBlocks(codeBlocks)[k].content]]

FileNamesOf(nodes) ==
    {getAllFilesFromBlocks(nodes)[k].filename : k \in 1..Len(getAllFilesFromBlocks(nodes))}

IndexOfVersion(vs, id) ==
    LET hits == {k \in 1..Len(vs) : vs[k].id = id}
    IN  IF hits = {} THEN 0 ELSE CHOOSE k \in hits : \A j \in hits : k <= j

VersionEffectDeps == [activeVersionId |-> activeVersionId, versions |-> versions,
                      activeTab |-> activeTab]

MemoSettled ==
    /\ memoPc = "idle"
    /\ memoDeps = [messages |-> messages, activeVersionId |-> activeVersionId]

\* the render has settled: the memo and the version effect have run on the state as it is
Settled == MemoSettled /\ effectDeps = VersionEffectDeps

PaneInit ==
    /\ openTabs = <<>>
    /\ activeTab = NoTab
    /\ effectDeps = [activeVersionId |-> NoVersion, versions |-> <<>>, activeTab |-> NoTab]
    /\ userPicked = FALSE
    /\ interactions = 0
    /\ closed = NoTab
    /\ selectedFiles = {}
    /\ selectedFilesForContext = <<>>

\* the parent re-renders PreviewPane with one more assistant message
PaneReceive ==
    /\ Settled
    /\ Len(messages) <= MaxPaneMessages
    /\ \E text \in PaneTexts :
          messages' = Append(messages, [role |-> "assistant", content |-> text,
                                        timestamp |-> Len(messages) + 1])
    /\ UNCHANGED <<memoDeps, memoVars, versions, activeVersionId, codeBlocks, fileStructure>>
    /\ UNCHANGED paneVars
    /\ UNCHANGED otherThanPane

\* the text that replaces the content of the streamed message when the request fails
\* (ChatInterface.tsx lines 280 to 284): prose
PaneErrorText == <<"t", " ", "t">>

\* the request of the last assistant message fails after its chunks had been appended:
\* the parent replaces the content of the message (ChatInterface.tsx lines 278 to 287)
PaneReplaceContent ==
    /\ Settled
    /\ Len(messages) > 1
    /\ messages[Len(messages)].content # PaneErrorText
    /\ messages' = [messages EXCEPT ![Len(messages)].content = PaneErrorText]
    /\ UNCHANGED <<memoDeps, memoVars, versions, activeVersionId, codeBlocks, fileStructure>>
    /\ UNCHANGED paneVars
    /\ UNCHANGED otherThanPane

\* the version effect: lines 229 to 242
VersionEffect ==
    /\ MemoSettled
    /\ effectDeps # VersionEffectDeps
    /\ effectDeps' = VersionEffectDeps
    /\ \E i \in {IndexOfVersion(versions, activeVersionId)} :
          IF activeVersionId # NoVersion /\ i > 0
          THEN \E allFileNames \in {FileNamesOf(versions[i].codeBlocks)} :
                  /\ codeBlocks' = versions[i].codeBlocks
                  /\ openTabs' = SelectSeq(openTabs, LAMBDA tab : tab \in allFileNames)
                  /\ activeTab' = IF activeTab # NoTab /\ activeTab \notin allFileNames
                                  THEN NoTab ELSE activeTab
          ELSE UNCHANGED <<codeBlocks, openTabs, activeTab>>
    /\ UNCHANGED <<messages, memoDeps, memoVars, versions, activeVersionId, fileStructure>>
    /\ UNCHANGED <<userPicked, interactions, closed>>
    /\ UNCHANGED selectionVars
    /\ UNCHANGED otherThanPane

\* handleVersionChange: lines 244 to 246, called from the list of the versions
HandleVersionChange ==
    /\ Settled
    /\ interactions < MaxInteractions
    /\ \E k \in 1..Len(versions) : activeVersionId' = versions[k].id
    /\ userPicked' = TRUE
    /\ interactions' = interactions + 1
    /\ UNCHANGED <<messages, memoDeps, memoVars, versions, codeBlocks, fileStructure>>
    /\ UNCHANGED <<openTabs, activeTab, effectDeps, closed>>
    /\ UNCHANGED selectionVars
    /\ UNCHANGED otherThanPane

\* handleFileClick: lines 322 to 330, called from the tree of the displayed blocks
HandleFileClick ==
    /\ Settled
    /\ interactions < MaxInteractions
    /\ \E filename \in FileNamesOf(codeBlocks) :
          /\ openTabs' = IF \E k \in 1..Len(openTabs) : openTabs[k] = filename
                         THEN openTabs ELSE Append(openTabs, filename)
          /\ activeTab' = filename
    /\ interactions' = interactions + 1
    /\ UNCHANGED <<effectDeps, userPicked, closed>>
    /\ UNCHANGED versionVars
    /\ UNCHANGED selectionVars
    /\ UNCHANGED otherThanPane

\* the tab bar: a click on an open tab, line 463
TabClick ==
    /\ Settled
    /\ interactions < MaxInteractions
    /\ \E k \in 1..Len(openTabs) : activeTab' = openTabs[k]
    /\ interactions' = interactions + 1
    /\ UNCHANGED <<openTabs, effectDeps, userPicked, closed>>
    /\ UNCHANGED versionVars
    /\ UNCHANGED selectionVars
    /\ UNCHANGED otherThanPane

\* openTabs.filter((tab) => tab !== filename)
WithoutTab(tabs, filename) == SelectSeq(tabs, LAMBDA tab : tab # filename)

\* the tab that is closed stays the active one
ActiveAfterCloseKept(tabs, active, filename) == active

\* lines 337 to 342: the active tab after the tab filename was closed
ActiveAfterClose(tabs, active, filename) ==
    IF active # filename THEN active
    ELSE IF WithoutTab(tabs, filename) # <<>>
    THEN WithoutTab(tabs, filename)[Len(WithoutTab(tabs, filename))]
    ELSE NoTab

\* closeTab: lines 332 to 343, called from the close button of an open tab
CloseTab ==
    /\ Settled
    /\ interactions < MaxInteractions
    /\ \E k \in 1..Len(openTabs) :
          /\ openTabs' = WithoutTab(openTabs, openTabs[k])
          /\ activeTab' = ActiveAfterClose(openTabs, activeTab, openTabs[k])
          /\ closed' = IF activeTab = openTabs[k] THEN openTabs[k] ELSE closed
    /\ interactions' = interactions + 1
    /\ UNCHANGED <<effectDeps, userPicked>>
    /\ UNCHANGED versionVars
    /\ UNCHANGED selectionVars
    /\ UNCHANGED otherThanPane

RECURSIVE updateCodeBlocks(_, _, _)
updateCodeBlocks(nodes, filename, newContent) ==
    [k \in 1..Len(nodes) |->
        IF nodes[k].type = "file" /\ nodes[k].filename = filename
        THEN [nodes[k] EXCEPT !.content = newContent]
        ELSE IF nodes[k].type = "folder" /\ nodes[k].children # <<>>
        THEN [nodes[k] EXCEPT !.children = updateCodeBlocks(@, filename, newContent)]
        ELSE nodes[k]]

\* the versions after updateCodeBlock: only the active version takes the updated blocks
PersistEdit(vs, id, updatedBlocks) ==
    [k \in 1..Len(vs) |-> IF vs[k].id = id THEN [vs[k] EXCEPT !.codeBlocks = updatedBlocks]
                          ELSE vs[k]]

\* updateCodeBlock: lines 271 to 295, called by the editor of the active tab on save
UpdateCodeBlock ==
    /\ Settled
    /\ interactions < MaxInteractions
    /\ activeTab # NoTab
    /\ activeTabContent # NoBlock
    /\ \E newContent \in NewContents :
       \E updatedBlocks \in {updateCodeBlocks(codeBlocks, activeTab, newContent)} :
          /\ codeBlocks' = updatedBlocks
          /\ versions' = IF activeVersionId # NoVersion
                         THEN PersistEdit(versions, activeVersionId, updatedBlocks)
                         ELSE versions
    /\ interactions' = interactions + 1
    /\ UNCHANGED <<messages, memoDeps, memoVars, activeVersionId, fileStructure>>
    /\ UNCHANGED <<openTabs, activeTab, effectDeps, userPicked, closed>>
    /\ UNCHANGED selectionVars
    /\ UNCHANGED otherThanPane

\* allFiles.filter((file) => newSelection.has(file.filename || "")), line 307
SelectedFileObjects(blocks, selection) ==
    SelectSeq(getAllFilesFromBlocks(blocks), LAMBDA file : file.filename \in selection)

\* handleFileSelection: lines 297 to 309, called from the checkbox of a file of the tree
HandleFileSelection ==
    /\ Settled
    /\ interactions < MaxInteractions
    /\ \E filename \in FileNamesOf(codeBlocks) :
       \E newSelection \in {IF filename \in selectedFiles THEN selectedFiles \ {filename}
                             ELSE selectedFiles \cup {filename}} :
          /\ selectedFiles' = newSelection
          /\ selectedFilesForContext' = SelectedFileObjects(codeBlocks, newSelection)
    /\ interactions' = interactions + 1
    /\ UNCHANGED <<openTabs, activeTab, effectDeps, userPicked, closed>>
    /\ UNCHANGED versionVars
    /\ UNCHANGED otherThanPane

\* selectAllFiles: lines 311 to 315
SelectAllFiles ==
    /\ Settled
    /\ interactions < MaxInteractions
    /\ selectedFiles' = FileNamesOf(codeBlocks)
    /\ selectedFilesForContext' = getAllFilesFromBlocks(codeBlocks)
    /\ interactions' = interactions + 1
    /\ UNCHANGED <<openTabs, activeTab, effectDeps, userPicked, closed>>
    /\ UNCHANGED versionVars
    /\ UNCHANGED otherThanPane

\* clearSelection: lines 317 to 320
ClearSelection ==
    /\ Settled
    /\ interactions < MaxInteractions
    /\ selectedFiles' = {}
    /\ selectedFilesForContext' = <<>>
    /\ interactions' = interactions + 1
    /\ UNCHANGED <<openTabs, activeTab, effectDeps, userPicked, closed>>
    /\ UNCHANGED versionVars
    /\ UNCHANGED otherThanPane

PaneNext ==
    \/ PaneReceive
    \/ PaneReplaceContent
    \/ MemoStart
    \/ MemoIteration
    \/ MemoReturn
    \/ VersionEffect
    \/ HandleVersionChange
    \/ HandleFileClick
    \/ TabClick
    \/ CloseTab
    \/ UpdateCodeBlock
    \/ HandleFileSelection
    \/ SelectAllFiles
    \/ ClearSelection

\* LivePreview is rendered: line 551
PreviewShown == Settled /\ codeBlocks # <<>>

\* C14: the entry is the active tab's file only when that file is a component source,
\* otherwise the first component block of the current set; a non-empty entry is the
\* filename of one of the modules given to LivePreview.
C14_EntryAmongModules ==
    PreviewShown =>
        /\ EntryProp = IF activeTabContent # NoBlock /\ IsComponent(activeTabContent)
                       THEN activeTabContent.filename
                       ELSE IF ComponentBlocks(codeBlocks) # <<>>
                       THEN Head(ComponentBlocks(codeBlocks)).filename
                       ELSE <<>>
        /\ EntryProp # <<>> => EntryProp \in Names(ModulesProp)

\* C18: while the user has picked no version, the active version is the last version
\* of the list whenever the list has been recomputed from the messages.
C18_ActiveIsLatest ==
    (Settled /\ ~userPicked /\ versions # <<>>) =>
        activeVersionId = versions[Len(versions)].id

\* C19: no step changes the blocks of a version that stays in the list, except a save,
\* which changes the blocks of the active version only.
C19_SnapshotsKept ==
    [][\A k \in 1..Len(versions) : \A j \in 1..Len(versions') :
          ( /\ versions'[j].id = versions[k].id
            /\ (interactions' = interactions \/ versions[k].id # activeVersionId) )
          => versions'[j].codeBlocks = versions[k].codeBlocks]_vars

\* the version holds a saved content for the file
HoldsEdit(version, filename) ==
    /\ findFileByName(version.codeBlocks, filename) # NoBlock
    /\ findFileByName(version.codeBlocks, filename).content \in NewContents

\* C23: a version that holds the saved content of a file holds it after every later step
\* (a new assistant message, a recomputation of the versions, a switch of the version).
C23_SavedEditPersists ==
    [][\A k \in 1..Len(versions) : \A filename \in FileNamesOf(versions[k].codeBlocks) :
          HoldsEdit(versions[k], filename) =>
              \E j \in 1..Len(versions') :
                  /\ versions'[j].id = versions[k].id
                  /\ HoldsEdit(versions'[j], filename)
                  /\ findFileByName(versions'[j].codeBlocks, filename).content =
                         findFileByName(versions[k].codeBlocks, filename).content]_vars

\* C24: when the recomputation has settled the active version id is null or the id of
\* a version of the list, and the displayed blocks are the blocks of that version.
C24_ActiveIsListed ==
    Settled =>
        \/ activeVersionId = NoVersion
        \/ /\ IndexOfVersion(versions, activeVersionId) > 0
           /\ codeBlocks = versions[IndexOfVersion(versions, activeVersionId)].codeBlocks

\* C30: whenever handleSubmit may build the context (the render has settled), the files
\* ChatInterface holds for it are the files of the displayed blocks whose filenames are
\* selected, with the content they have now.
C30_ContextIsCurrent ==
    Settled => selectedFilesForContext = SelectedFileObjects(codeBlocks, selectedFiles)

(***************************************************************************)
(* ContentBlocksView (ContentBlocksView.tsx): the same tabs over the       *)
(* contentBlocks its parent hands down; the tab effect of lines 51 to 57   *)
(* runs on every change of the blocks or of the active tab.                *)
(***************************************************************************)
\* the trees the parent hands down
ViewContents ==
    { <<>>,
      transformCodeBlocks(<< [language |-> <<"t">>, filename |-> <<"a">>, content |-> <<"x">>] >>),
      transformCodeBlocks(<< [language |-> <<"t">>, filename |-> <<"a">>, content |-> <<"x">>],
                             [language |-> <<"t">>, filename |-> <<"s", "/", "b">>,
                              content |-> <<"x">>] >>),
      transformCodeBlocks(<< [language |-> <<"t">>, filename |-> <<"s", "/", "b">>,
                              content |-> <<"y">>],
                             [language |-> <<"t">>, filename |-> <<"s", "/", "c">>,
                              content |-> <<"x">>] >>) }

ViewDeps == [contentBlocks |-> contentBlocks, activeTab |-> viewActiveTab]

\* ContentBlocksView is mounted and its tab effect has run on the state as it is
ViewSettled == viewEffectDeps = ViewDeps

ViewInit ==
    /\ contentBlocks = <<>>
    /\ viewOpenTabs = <<>>
    /\ viewActiveTab = NoTab
    /\ viewEffectDeps = [contentBlocks |-> <<>>, activeTab |-> <<"unmounted">>]
    /\ viewSteps = 0

\* the parent renders ContentBlocksView with other contentBlocks
ViewContentChange ==
    /\ ViewSettled \/ viewSteps = 0
    /\ viewSteps < MaxViewSteps
    /\ \E blocks \in ViewContents \ {contentBlocks} : contentBlocks' = blocks
    /\ viewSteps' = viewSteps + 1
    /\ UNCHANGED <<viewOpenTabs, viewActiveTab, viewEffectDeps>>
    /\ UNCHANGED otherThanView

\* the tab effect: lines 51 to 57
ViewTabEffect ==
    /\ viewEffectDeps # ViewDeps
    /\ viewEffectDeps' = ViewDeps
    /\ \E allFileNames \in {FileNamesOf(contentBlocks)} :
          /\ viewOpenTabs' = SelectSeq(viewOpenTabs, LAMBDA tab : tab \in allFileNames)
          /\ viewActiveTab' = IF viewActiveTab # NoTab /\ viewActiveTab \notin allFileNames
                              THEN NoTab ELSE viewActiveTab
    /\ UNCHANGED <<contentBlocks, viewSteps>>
    /\ UNCHANGED otherThanView

\* handleFileClick: lines 106 to 115
ViewFileClick ==
    /\ ViewSettled
    /\ viewSteps < MaxViewSteps
    /\ \E filename \in FileNamesOf(contentBlocks) :
          /\ viewOpenTabs' = IF \E k \in 1..Len(viewOpenTabs) : viewOpenTabs[k] = filename
                             THEN viewOpenTabs ELSE Append(viewOpenTabs, filename)
          /\ viewActiveTab' = filename
    /\ viewSteps' = viewSteps + 1
    /\ UNCHANGED <<contentBlocks, viewEffectDeps>>
    /\ UNCHANGED otherThanView

\* the tab bar: a click on an open tab
ViewTabClick ==
    /\ ViewSettled
    /\ viewSteps < MaxViewSteps
    /\ \E k \in 1..Len(viewOpenTabs) : viewActiveTab' = viewOpenTabs[k]
    /\ viewSteps' = viewSteps + 1
    /\ UNCHANGED <<contentBlocks, viewOpenTabs, viewEffectDeps>>
    /\ UNCHANGED otherThanView

\* closeTab: lines 117 to 128
ViewCloseTab ==
    /\ ViewSettled
    /\ viewSteps < MaxViewSteps
    /\ \E k \in 1..Len(viewOpenTabs) :
          /\ viewOpenTabs' = WithoutTab(viewOpenTabs, viewOpenTabs[k])
          /\ viewActiveTab' = ActiveAfterClose(viewOpenTabs, viewActiveTab, viewOpenTabs[k])
    /\ viewSteps' = viewSteps + 1
    /\ UNCHANGED <<contentBlocks, viewEffectDeps>>
    /\ UNCHANGED otherThanView

ViewNext ==
    ViewContentChange \/ ViewTabEffect \/ ViewFileClick \/ ViewTabClick \/ ViewCloseTab

\* PreviewPane and ContentBlocksView share no state: a session shows one of them
PaneUnused == memoDeps = [messages |-> <<>>, activeVersionId |-> NoVersion]

ViewUnused == viewSteps = 0 /\ viewEffectDeps.activeTab = <<"unmounted">>

TabsNext ==
    \/ ViewUnused /\ PaneReceive
    \/ ViewUnused /\ PaneReplaceContent
    \/ ViewUnused /\ MemoStart
    \/ ViewUnused /\ MemoIteration
    \/ ViewUnused /\ MemoReturn
    \/ ViewUnused /\ VersionEffect
    \/ ViewUnused /\ HandleVersionChange
    \/ ViewUnused /\ HandleFileClick
    \/ ViewUnused /\ TabClick
    \/ ViewUnused /\ CloseTab
    \/ ViewUnused /\ UpdateCodeBlock
    \/ PaneUnused /\ ViewContentChange
    \/ PaneUnused /\ ViewTabEffect
    \/ PaneUnused /\ ViewFileClick
    \/ PaneUnused /\ ViewTabClick
    \/ PaneUnused /\ ViewCloseTab

\* the tabs are distinct, the active tab is none or one of them, each names a file of
\* the blocks
TabsOk(tabs, active, blocks) ==
    /\ \A i, j \in 1..Len(tabs) : i # j => tabs[i] # tabs[j]
    /\ active = NoTab \/ \E k \in 1..Len(tabs) : tabs[k] = active
    /\ \A k \in 1..Len(tabs) : tabs[k] \in FileNamesOf(blocks)

\* the step closed the active tab
ClosedActive(tabs, active, tabsAfter) ==
    /\ Len(tabsAfter) < Len(tabs)
    /\ active # NoTab
    /\ \A k \in 1..Len(tabsAfter) : tabsAfter[k] # active

\* C29: in PreviewPane and in ContentBlocksView, whenever the render has settled the
\* open tabs are distinct, the active tab is null or an open tab and every open tab
\* names a file of the displayed blocks; a click that closes the active tab makes the
\* last remaining tab active, or none when no tab remains.
C29_TabsConsistent ==
    /\ [](Settled => TabsOk(openTabs, activeTab, codeBlocks))
    /\ [](ViewSettled => TabsOk(viewOpenTabs, viewActiveTab, contentBlocks))
    /\ [][(interactions' # interactions /\ ClosedActive(openTabs, activeTab, openTabs')) =>
             (activeTab' = IF openTabs' = <<>> THEN NoTab ELSE openTabs'[Len(openTabs')])]_vars
    /\ [][(viewSteps' # viewSteps /\ ClosedActive(viewOpenTabs, viewActiveTab, viewOpenTabs')) =>
             (viewActiveTab' = IF viewOpenTabs' = <<>> THEN NoTab
                               ELSE viewOpenTabs'[Len(viewOpenTabs')])]_vars

\* PreviewPane: two tabs were opened and the active one was closed; the tab that
\* remains is active
C29_Witness ==
    /\ Settled
    /\ closed # NoTab
    /\ Len(openTabs) = 1
    /\ openTabs[1] # closed
    /\ activeTab = openTabs[1]

\* ContentBlocksView: a tab was opened and the blocks then changed to blocks without
\* its file
C29_ViewWitness ==
    /\ ViewSettled
    /\ viewSteps = 3
    /\ viewOpenTabs = <<>>
    /\ viewActiveTab = NoTab
    /\ contentBlocks # <<>>

(***************************************************************************)
(* The merge step of the memo (PreviewPane.tsx lines 159 to 168) on its    *)
(* own: the blocks of message after message are folded into the tree.      *)
(***************************************************************************)
\* the flat blocks a message can carry
FlatPool ==
    { [language |-> <<"t">>, filename |-> <<"a">>, content |-> <<"x">>],
      [language |-> <<"c">>, filename |-> <<"a">>, content |-> <<"y">>],
      [language |-> <<"t">>, filename |-> <<"s", "/", "b">>, content |-> <<"x">>],
      [language |-> <<"t">>, filename |-> <<"s", "/", "b">>, content |-> <<"y">>],
      [language |-> <<"t">>, filename |-> <<"s", "/", "c">>, content |-> <<"x">>] }

MergeInit ==
    /\ mergeFlat = <<>>
    /\ mergeAccumulated = <<>>
    /\ mergeIncoming = <<>>
    /\ mergeResult = <<>>
    /\ mergeUsed = 0
    /\ mergeHistory = <<>>

\* one more block is extracted from the message (line 158)
MergeNextBlock ==
    /\ mergeUsed < MaxMergeBlocks
    /\ \E block \in FlatPool : mergeFlat' = Append(mergeFlat, block)
    /\ mergeUsed' = mergeUsed + 1
    /\ UNCHANGED <<mergeAccumulated, mergeIncoming, mergeResult, mergeHistory>>
    /\ UNCHANGED otherThanMerge

\* the blocks of the message replace the accumulated tree instead of being merged
MergeCallReplacing ==
    /\ mergeFlat # <<>>
    /\ \E transformedBlocks \in {transformCodeBlocks(mergeFlat)} :
          /\ mergeIncoming' = transformedBlocks
          /\ mergeResult' = transformedBlocks
          /\ mergeHistory' = Append(mergeHistory, transformedBlocks)
    /\ mergeAccumulated' = mergeResult
    /\ mergeFlat' = <<>>
    /\ UNCHANGED mergeUsed
    /\ UNCHANGED otherThanMerge

\* the accumulated tree is merged into the blocks of the message: the earliest wins
MergeCallIncomingFirst ==
    /\ mergeFlat # <<>>
    /\ \E transformedBlocks \in {transformCodeBlocks(mergeFlat)} :
          /\ mergeIncoming' = transformedBlocks
          /\ mergeResult' = mergeCodeStructBlocks(transformedBlocks, mergeResult)
          /\ mergeHistory' = Append(mergeHistory, transformedBlocks)
    /\ mergeAccumulated' = mergeResult
    /\ mergeFlat' = <<>>
    /\ UNCHANGED mergeUsed
    /\ UNCHANGED otherThanMerge

\* lines 159 to 168: the blocks of the message are transformed and merged
MergeCall ==
    /\ mergeFlat # <<>>
    /\ \E transformedBlocks \in {transformCodeBlocks(mergeFlat)} :
          /\ mergeIncoming' = transformedBlocks
          /\ mergeResult' = mergeCodeStructBlocks(mergeResult, transformedBlocks)
          /\ mergeHistory' = Append(mergeHistory, transformedBlocks)
    /\ mergeAccumulated' = mergeResult
    /\ mergeFlat' = <<>>
    /\ UNCHANGED mergeUsed
    /\ UNCHANGED otherThanMerge

MergeNext == MergeNextBlock \/ MergeCall

\* the files of a tree as a set of (path, language, content), and their paths
Leaves(nodes) ==
    {[filename |-> getAllFilesFromBlocks(nodes)[k].filename,
      language |-> getAllFilesFromBlocks(nodes)[k].language,
      content |-> getAllFilesFromBlocks(nodes)[k].content] :
        k \in 1..Len(getAllFilesFromBlocks(nodes))}

Paths(nodes) == {leaf.filename : leaf \in Leaves(nodes)}

\* each path of the tree is the path of one file
OnePerPath(nodes) == Len(getAllFilesFromBlocks(nodes)) = Cardinality(Paths(nodes))

\* C20: for trees in which each path is the path of one file, the merged tree has the
\* paths of both trees and no other; a path of the accumulated tree only keeps its
\* content and language, a path of the incoming tree has the incoming content and
\* language.
C20_MergePreserves ==
    (OnePerPath(mergeAccumulated) /\ OnePerPath(mergeIncoming)) =>
        /\ OnePerPath(mergeResult)
        /\ Paths(mergeResult) = Paths(mergeAccumulated) \cup Paths(mergeIncoming)
        /\ \A leaf \in Leaves(mergeAccumulated) :
              leaf.filename \notin Paths(mergeIncoming) => leaf \in Leaves(mergeResult)
        /\ \A leaf \in Leaves(mergeResult) :
              IF leaf.filename \in Paths(mergeIncoming)
              THEN leaf \in Leaves(mergeIncoming)
              ELSE leaf \in Leaves(mergeAccumulated)

\* accumulated {a, s/b} merged with an incoming s/b of another content gives {a, s/b'}
C20_Witness ==
    /\ Paths(mergeAccumulated) = {<<"a">>, <<"s", "/", "b">>}
    /\ Paths(mergeIncoming) = {<<"s", "/", "b">>}
    /\ Leaves(mergeIncoming) \cap Leaves(mergeAccumulated) = {}
    /\ Paths(mergeResult) = {<<"a">>, <<"s", "/", "b">>}
    /\ Leaves(mergeIncoming) \subseteq Leaves(mergeResult)

\* the incoming trees one after the other in one list
RECURSIVE Concatenated(_)
Concatenated(trees) ==
    IF trees = <<>> THEN <<>> ELSE Head(trees) \o Concatenated(Tail(trees))

\* the leaves of the incoming trees that no later incoming tree has a leaf for
LatestLeaves(trees) ==
    UNION {{leaf \in Leaves(trees[k]) :
               \A j \in (k + 1)..Len(trees) : leaf.filename \notin Paths(trees[j])} :
           k \in 1..Len(trees)}

\* C21: the tree folded from the incoming trees one message at a time is the merge of
\* all of them at once in their order; when each incoming tree has one file per path
\* its files are, path by path, those of the latest incoming tree that has the path;
\* and merging the empty list into the tree gives the tree.
C21_FoldIsMergeAtOnce ==
    /\ mergeResult = mergeCodeStructBlocks(<<>>, Concatenated(mergeHistory))
    /\ (\A k \in 1..Len(mergeHistory) : OnePerPath(mergeHistory[k])) =>
           Leaves(mergeResult) = LatestLeaves(mergeHistory)
    /\ mergeCodeStructBlocks(mergeResult, <<>>) = mergeResult

\* three messages were folded in, the third with another content for the path of the
\* first, and the second with a path of its own
C21_Witness ==
    /\ Len(mergeHistory) = 3
    /\ \A k \in 1..3 : OnePerPath(mergeHistory[k])
    /\ Paths(mergeHistory[1]) = Paths(mergeHistory[3])
    /\ Leaves(mergeHistory[1]) # Leaves(mergeHistory[3])
    /\ Paths(mergeHistory[2]) \cap Paths(mergeHistory[1]) = {}
    /\ Leaves(mergeHistory[3]) \subseteq Leaves(mergeResult)
    /\ Leaves(mergeHistory[2]) \subseteq Leaves(mergeResult)

(***************************************************************************)
(* ChatInterface (the copy that streams, ChatInterface.tsx lines 204 to    *)
(* 289) and useOllama (hooks/useOllama.ts).  A submit runs handleSubmit up *)
(* to the await of the fetch; the lines of the stream, the completion and  *)
(* the failure of the request are later steps.  Two events are at least one*)
(* millisecond apart; the two readings of Date.now() of one submit are not.*)
(***************************************************************************)
\* the greeting: lines 205 to 212
ChatGreeting == [id |-> 1, role |-> "assistant", content |-> <<"t", " ", "t">>]

\* what the user types
Inputs == { <<"q">> }

\* the streams the backend answers with: a line of a stream is JSON with a response
\* text, or is not JSON
Streams ==
    { << [json |-> TRUE, response |-> <<"h">>],
         [json |-> FALSE, response |-> <<>>],
         [json |-> TRUE, response |-> <<"i">>] >>,
      << [json |-> TRUE, response |-> <<"i">>],
         [json |-> TRUE, response |-> <<>>] >> }

\* the text a request that does not stream returns
Responses == { <<"h", "i">> }

\* network failure, status other than 2xx, API key not found
Failures == {"network", "status", "credential"}

RECURSIVE Flatten(_)
Flatten(chunks) == IF chunks = <<>> THEN <<>> ELSE Head(chunks) \o Flatten(Tail(chunks))

\* the content of the catch of handleSubmit: lines 284
ErrorContent(failure, prov) == <<"Sorry", failure, prov>>

\* line 231 without the test of isLoading
SubmitRefusedOnEmpty == input = <<>>

\* line 231
SubmitRefused == input = <<>> \/ isLoading

\* the chunk replaces the content
ReplaceByChunk(list, id, chunk) ==
    [k \in 1..Len(list) |-> IF list[k].id = id THEN [list[k] EXCEPT !.content = chunk]
                            ELSE list[k]]

\* the callback given to sendMessage: lines 264 to 268
AppendChunk(list, id, chunk) ==
    [k \in 1..Len(list) |-> IF list[k].id = id
                            THEN [list[k] EXCEPT !.content = list[k].content \o chunk]
                            ELSE list[k]]

\* the catch that leaves the messages as they are
KeepContent(list, id, text) == list

\* the final update and the update of the catch: lines 272 to 276 and 280 to 287
SetContent(list, id, text) ==
    [k \in 1..Len(list) |-> IF list[k].id = id THEN [list[k] EXCEPT !.content = text]
                            ELSE list[k]]

InFlight == {r \in 1..Len(requests) : requests[r].status = "inflight"}

ChatInit ==
    /\ chat = <<ChatGreeting>>
    /\ input = <<>>
    /\ isLoading = FALSE
    /\ provider = "ollama"
    /\ clock = 2
    /\ requests = <<>>
    /\ refused = 0

\* the user types into the input
TypeInput ==
    /\ input = <<>>
    /\ \E text \in Inputs : input' = text
    /\ UNCHANGED <<chat, isLoading, provider, clock, requests, refused>>
    /\ UNCHANGED otherThanChat

\* the user chooses the other provider
SetProvider ==
    /\ provider' = IF provider = "ollama" THEN "gemini" ELSE "ollama"
    /\ UNCHANGED <<chat, input, isLoading, clock, requests, refused>>
    /\ UNCHANGED otherThanChat

\* handleSubmit up to the await of line 263, with sendMessage up to its first await
\* (useOllama.ts lines 63 to 70)
HandleSubmit ==
    /\ input # <<>>
    /\ IF SubmitRefused
       THEN /\ refused' = IF InFlight = {} THEN 0 ELSE CHOOSE r \in InFlight : TRUE
            /\ UNCHANGED <<chat, input, isLoading, clock, requests>>
       ELSE /\ Len(requests) < MaxRequests
            /\ \E later \in {clock, clock + 1}, stream \in Streams :
                  /\ chat' = chat \o
                        << [id |-> clock, role |-> "user", content |-> input],
                           [id |-> later + 1, role |-> "assistant", content |-> <<>>] >>
                  /\ requests' = Append(requests,
                        [userMessageId |-> clock, assistantMessageId |-> later + 1,
                         provider |-> provider, status |-> "inflight",
                         stream |-> IF provider = "ollama" THEN stream ELSE <<>>,
                         read |-> 0,
                         delivered |-> <<>>, response |-> <<>>, failure |-> "none"])
                  /\ clock' = later + 1
            /\ input' = <<>>
            /\ isLoading' = TRUE
            /\ UNCHANGED refused
    /\ UNCHANGED provider
    /\ UNCHANGED otherThanChat

\* one line of the stream is read and handled: useOllama.ts lines 109 to 125
StreamLine ==
    /\ \E r \in InFlight :
          /\ requests[r].read < Len(requests[r].stream)
          /\ \E line \in {requests[r].stream[requests[r].read + 1]} :
                IF line.json /\ line.response # <<>>
                THEN /\ requests' = [requests EXCEPT
                                       ![r].read = @ + 1,
                                       ![r].delivered = Append(@, line.response)]
                     /\ chat' = AppendChunk(chat, requests[r].assistantMessageId,
                                            line.response)
                ELSE /\ requests' = [requests EXCEPT ![r].read = @ + 1]
                     /\ UNCHANGED chat
    /\ UNCHANGED <<input, isLoading, provider, clock, refused>>
    /\ UNCHANGED otherThanChat

\* sendMessage returns: useOllama.ts lines 131, 167 and 77, then lines 272 to 276
RequestCompletes ==
    /\ \E r \in InFlight :
       \E response \in IF requests[r].provider = "ollama"
                       THEN {Flatten(requests[r].delivered)} ELSE Responses :
          /\ requests[r].read = Len(requests[r].stream)
          /\ requests' = [requests EXCEPT ![r].status = "done", ![r].response = response]
          /\ chat' = SetContent(chat, requests[r].assistantMessageId, response)
    /\ isLoading' = FALSE
    /\ UNCHANGED <<input, provider, clock, refused>>
    /\ UNCHANGED otherThanChat

\* sendMessage throws: useOllama.ts lines 72 to 77 (from lines 86, 99, 109, 141, 144 or
\* 163), then the catch of lines 278 to 288
RequestFails ==
    /\ \E r \in InFlight : \E failure \in Failures :
          /\ failure = "credential" => requests[r].provider = "gemini"
          /\ failure # "network" => requests[r].read = 0
          /\ requests' = [requests EXCEPT ![r].status = "failed", ![r].failure = failure]
          /\ chat' = SetContent(chat, requests[r].assistantMessageId,
                                ErrorContent(failure, requests[r].provider))
    /\ isLoading' = FALSE
    /\ UNCHANGED <<input, provider, clock, refused>>
    /\ UNCHANGED otherThanChat

ChatNext ==
    \/ TypeInput
    \/ SetProvider
    \/ HandleSubmit
    \/ StreamLine
    \/ RequestCompletes
    \/ RequestFails

\* the positions of the messages of a request in a list
UserIn(list, request) ==
    {k \in 1..Len(list) : list[k].role = "user" /\ list[k].id = request.userMessageId}

AssistantIn(list, request) ==
    {k \in 1..Len(list) : list[k].role = "assistant"
                          /\ list[k].id = request.assistantMessageId}

\* the list holds the user's message of the request and, right after it, its one
\* assistant message, with this content
AnsweredIn(list, request, text) ==
    /\ Cardinality(AssistantIn(list, request)) = 1
    /\ \E k \in UserIn(list, request) :
          k + 1 \in AssistantIn(list, request) /\ list[k + 1].content = text
    /\ \A k \in AssistantIn(list, request) :
          k + 1 <= Len(list) => list[k + 1].role = "user"

\* C15: every request that failed, at whatever point, has left the user's message
\* followed by exactly one assistant message, whose content describes the failure.
C15_FailureBecomesMessage ==
    \A r \in 1..Len(requests) :
        requests[r].status = "failed" =>
            AnsweredIn(chat, requests[r],
                       ErrorContent(requests[r].failure, requests[r].provider))

\* a request failed after a chunk had been delivered, and another before any
C15_Witness ==
    /\ \E r \in 1..Len(requests) :
          requests[r].status = "failed" /\ requests[r].delivered # <<>>
    /\ \E r \in 1..Len(requests) :
          requests[r].status = "failed" /\ requests[r].failure = "credential"

C17_ChunksInOrder ==
    [][\A r \in 1..Len(requests') :
          /\ requests'[r].status = "inflight" =>
                AnsweredIn(chat', requests'[r], Flatten(requests'[r].delivered))
          /\ requests'[r].status = "done" =>
                AnsweredIn(chat', requests'[r], requests'[r].response)
          /\ (r <= Len(requests) /\ requests'[r].delivered # requests[r].delivered) =>
                /\ Len(chat') = Len(chat)
                /\ \A k \in 1..Len(chat) :
                      k \notin AssistantIn(chat, requests[r]) => chat'[k] = chat[k]]_vars

\* two different chunks were delivered to the second request and it completed
C17_Witness ==
    /\ Len(requests) > 1
    /\ requests[2].status = "done"
    /\ requests[2].delivered = << <<"h">>, <<"i">> >>
    /\ AnsweredIn(chat, requests[2], <<"h", "i">>)

(***************************************************************************)
(* sendOllamaMessage (hooks/useOllama.ts lines 81 to 136, and the same     *)
(* loop in hooks/useContentGeneration.ts lines 228 to 257): the body of    *)
(* the response is a text of records, one per line; reader.read() hands it *)
(* over in chunks cut wherever the transport cuts them.  A record is       *)
(* written "{" response "}" here, a record without a response "{" "}".      *)
(***************************************************************************)
\* the response fields the backend sends
RecordResponses == { <<"h">>, <<"i">>, <<>> }

\* the record of a response as the backend writes it, with its line break
RecordText(response) == <<"{">> \o response \o <<"}", "\n">>

\* JSON.parse(line): the record of the line, or the SyntaxError it throws
JsonParse(line) ==
    LET t == Trim(line)
    IN  IF Len(t) >= 2 /\ t[1] = "{" /\ t[Len(t)] = "}"
           /\ \A k \in 2..(Len(t) - 1) : t[k] \notin {"{", "}"}
        THEN [threw |-> FALSE, response |-> SubSeq(t, 2, Len(t) - 1)]
        ELSE [threw |-> TRUE, response |-> <<>>]

\* chunk.split('\n').filter(line => line.trim())
ChunkLines(chunk) == SelectSeq(SplitOn(chunk, "\n"), LAMBDA line : Trim(line) # <<>>)

\* the for loop of lines 112 to 124: the responses of the lines that parse, in order
RECURSIVE ResponsesOf(_)
ResponsesOf(chunkLines) ==
    IF chunkLines = <<>> THEN <<>>
    ELSE LET data == JsonParse(Head(chunkLines))
         IN  (IF ~data.threw /\ data.response # <<>> THEN <<data.response>> ELSE <<>>)
             \o ResponsesOf(Tail(chunkLines))

StreamInit ==
    /\ streamBody = <<>>
    /\ streamPos = 0
    /\ fullResponse = <<>>
    /\ streamUpdates = <<>>
    /\ streamPc = "idle"

\* the fetch of line 86 resolves: the backend has one more record to send
BackendWrites ==
    /\ streamPc = "idle"
    /\ Len(SplitOn(streamBody, "\n")) <= MaxRecords
    /\ \E response \in RecordResponses : streamBody' = streamBody \o RecordText(response)
    /\ UNCHANGED <<streamPos, fullResponse, streamUpdates, streamPc>>
    /\ UNCHANGED otherThanStream

\* lines 102 to 106: the reader is taken
StartReading ==
    /\ streamPc = "idle"
    /\ streamBody # <<>>
    /\ streamPc' = "reading"
    /\ UNCHANGED <<streamBody, streamPos, fullResponse, streamUpdates>>
    /\ UNCHANGED otherThanStream

\* one turn of the while loop with done = false: lines 109 to 125
ReadChunk ==
    /\ streamPc = "reading"
    /\ streamPos < Len(streamBody)
    /\ \E n \in 1..(Len(streamBody) - streamPos) :
       \E found \in {ResponsesOf(ChunkLines(SubSeq(streamBody, streamPos + 1, streamPos + n)))} :
          /\ streamPos' = streamPos + n
          /\ fullResponse' = fullResponse \o Flatten(found)
          /\ streamUpdates' = streamUpdates \o found
    /\ UNCHANGED <<streamBody, streamPc>>
    /\ UNCHANGED otherThanStream

\* reader.read() reports done: lines 110, 127 and 131
ReadDone ==
    /\ streamPc = "reading"
    /\ streamPos = Len(streamBody)
    /\ streamPc' = "returned"
    /\ UNCHANGED <<streamBody, streamPos, fullResponse, streamUpdates>>
    /\ UNCHANGED otherThanStream

StreamNext == BackendWrites \/ StartReading \/ ReadChunk \/ ReadDone

\* the response fields of the records of the body, in order
SentResponses == ResponsesOf(ChunkLines(streamBody))

\* C28: the text sendOllamaMessage returns is the concatenation, in order, of the
\* response fields of the records the backend sent, however the body was cut into
\* chunks, and it is the text that was delivered through onStreamUpdate.
C28_ReturnsWhatWasSent ==
    streamPc = "returned" =>
        /\ fullResponse = Flatten(SentResponses)
        /\ Flatten(streamUpdates) = fullResponse

(***************************************************************************)
(* Specifications.                                                         *)
(***************************************************************************)
Init == TreeInit /\ BlocksInit /\ LoaderInit /\ PreviewInit /\ VersionsInit /\ PaneInit /\ MergeInit /\ ChatInit /\ StreamInit /\ ViewInit

SpecTree == Init /\ [][TreeNext]_vars

SpecBlocks == Init /\ [][BlocksNext]_vars

SpecLoader == Init /\ [][LoaderNext]_vars

SpecPreview == Init /\ [][PreviewNext]_vars

\* React runs the effect after the commit of new props and renders what was scheduled;
\* the loader runs synchronously inside the effect
SpecPreviewLive ==
    /\ Init
    /\ [][PreviewNext]_vars
    /\ WF_vars(EffectStart)
    /\ WF_vars(RunImport)
    /\ WF_vars(RunReturn)
    /\ WF_vars(EffectEnd)
    /\ WF_vars(ReactRender)

SpecVersions == Init /\ [][VersionsNext]_vars

SpecPane == Init /\ [][PaneNext]_vars

SpecMerge == Init /\ [][MergeNext]_vars

SpecChat == Init /\ [][ChatNext]_vars

SpecStream == Init /\ [][StreamNext]_vars

SpecTabs == Init /\ [][TabsNext]_vars

====
